---- MODULE Spec2Model ----
(***************************************************************************)
(* Verification model of pyaerocom: StationData merging                    *)
(* (pyaerocom/stationdata.py) and the aeroval ExperimentSetup              *)
(* (pyaerocom/aeroval/experiment_setup.py).                                *)
(*                                                                         *)
(* Python values are tagged records; a str is the sequence of its          *)
(* characters, so that split(';') and strip() are computed, not assumed.   *)
(***************************************************************************)
EXTENDS Integers, Sequences, FiniteSets, TLC

VARIABLES
    self,                \* the StationData object the merge methods are called on
    stations,            \* the StationData objects read for merging into self
    STANDARD_META_KEYS,  \* class-level list StationData.STANDARD_META_KEYS
    last,                \* record of the last StationData call (arguments, pre-state, outcome)
    setup,               \* the ExperimentSetup of the evaluation run
    run,                 \* progress of ExperimentSetup.run_evaluation
    cfg,                 \* outcome of constructing an ExperimentSetup
    codec,               \* a map file name written and parsed back
    tree,                \* configuration and output tree of an experiment
    sobs,                \* colocated data files and the super-observation processing
    coldir,              \* a colocated data directory searched by find_coldata_files
    conf,                \* an ExperimentSetup under update, save and load
    cache,               \* the cache directory of a Config object and the file system
    reader               \* a ReadCAMS2_83 object and the files of its data directory

svars == <<self, stations, STANDARD_META_KEYS, last>>
evars == <<setup, run>>
cvars == <<cfg>>
kvars == <<codec>>
tvars == <<tree>>
ovars == <<sobs>>
fvars == <<coldir>>
uvars == <<conf>>
dvars == <<cache>>
rvars == <<reader>>
xvars == <<coldir, conf, cache, reader>>
vars == <<self, stations, STANDARD_META_KEYS, last, setup, run, cfg, codec, tree, sobs,
          coldir, conf, cache, reader>>

---------------------------------------------------------------------------
(* Python values *)

None == [t |-> "None"]
PyStr(s) == [t |-> "str", s |-> s]
PyNum(n) == [t |-> "num", n |-> n]
PyList(l) == [t |-> "list", l |-> l]
PyBool(b) == [t |-> "bool", b |-> b]
NaN == [t |-> "nan"]

\* truth value of v in `if v:`
Truthy(v) ==
    CASE v.t = "None" -> FALSE
      [] v.t = "bool" -> v.b
      [] v.t = "num" -> v.n # 0
      [] v.t = "str" -> v.s # <<>>
      [] v.t = "list" -> v.l # <<>>

IsStr(v) == v.t = "str"
IsList(v) == v.t = "list"

\* x in l, for a Python list l (a sequence)
InSeq(x, l) == \E i \in 1..Len(l) : l[i] = x

\* the one element of a singleton set: Only({e}) is e, evaluated once
Only(S) == CHOOSE x \in S : TRUE

SeqToSet(l) == {l[i] : i \in 1..Len(l)}

---------------------------------------------------------------------------
(* str.split(';') and str.strip() on character sequences *)

\* index of the first ';' in s, 0 when there is none
FirstSep(s) ==
    IF \E i \in 1..Len(s) : s[i] = ";"
    THEN CHOOSE i \in 1..Len(s) : s[i] = ";" /\ \A j \in 1..(i - 1) : s[j] # ";"
    ELSE 0

RECURSIVE split(_)
split(s) ==
    LET i == FirstSep(s) IN
    IF i = 0 THEN <<s>>
    ELSE <<SubSeq(s, 1, i - 1)>> \o split(SubSeq(s, i + 1, Len(s)))

RECURSIVE lstrip(_)
lstrip(s) == IF Len(s) > 0 /\ s[1] = " " THEN lstrip(Tail(s)) ELSE s

RECURSIVE rstrip(_)
rstrip(s) ==
    IF Len(s) > 0 /\ s[Len(s)] = " " THEN rstrip(SubSeq(s, 1, Len(s) - 1)) ELSE s

strip(s) == rstrip(lstrip(s))

\* [x.strip() for x in s.split(';')]
stripped_tokens(s) == LET p == split(s) IN [i \in 1..Len(p) |-> strip(p[i])]

---------------------------------------------------------------------------
(* StationData._append_meta_item and the loop of merge_varinfo.            *)
(* Each returns [val, exc]: the value stored under the key afterwards and  *)
(* the exception raised ("" when none).                                    *)

\* for _val in vals_in: if not _val in vals: self[key] = self[key] + ';' + _val
\* (vals is computed once, before the loop, and is not updated by it)
RECURSIVE append_tokens(_, _, _)
append_tokens(cur, vals, vals_in) ==
    IF vals_in = <<>> THEN cur
    ELSE LET tok == Head(vals_in) IN
         append_tokens(
             IF InSeq(tok, vals) THEN cur ELSE cur \o <<";">> \o tok,
             vals, Tail(vals_in))

\* the str branch shared by _append_meta_item and merge_varinfo
merge_str(cur, val) ==
    IF ~IsStr(val) THEN [val |-> cur, exc |-> "ValueError"]
    ELSE [val |-> PyStr(append_tokens(cur.s, stripped_tokens(cur.s),
                                      stripped_tokens(val.s))),
          exc |-> ""]

\* variant of merge_nonstr in which a differing scalar replaces the stored one
merge_nonstr_overwrite(cur, val) ==
    IF IsList(cur)
    THEN [val |-> IF InSeq(val, cur.l) THEN cur ELSE PyList(Append(cur.l, val)),
          exc |-> ""]
    ELSE [val |-> val, exc |-> ""]

\* the tail shared by both: self[key] is neither missing, None nor str and
\* val is not a list
merge_nonstr(cur, val) ==
    IF IsList(cur)
    THEN [val |-> IF InSeq(val, cur.l) THEN cur ELSE PyList(Append(cur.l, val)),
          exc |-> ""]
    ELSE [val |-> IF cur = val THEN cur ELSE PyList(<<cur, val>>), exc |-> ""]

\* _append_meta_item(key, val); present is `key in self`
append_meta_item(present, cur, val) ==
    IF ~present \/ cur = None THEN [val |-> val, exc |-> ""]
    ELSE IF IsStr(cur) THEN merge_str(cur, val)
    ELSE IF IsList(val) THEN [val |-> cur, exc |-> "ValueError"]
    ELSE merge_nonstr(cur, val)

---------------------------------------------------------------------------
(* dict helpers: a dict is a function from its keys *)

HasKey(d, k) == k \in DOMAIN d

SetKey(d, k, v) == [x \in (DOMAIN d) \cup {k} |-> IF x = k THEN v ELSE d[x]]

EmptyDict == [x \in {} |-> None]

---------------------------------------------------------------------------
(* Coordinates: station positions are metres on a local plane, so that the *)
(* tolerance of 0.1 km is 100.  Distances are compared by their squares.   *)

STANDARD_COORD_KEYS == <<"latitude", "longitude", "altitude">>

COORD_MAX_VAR == 100

\* get_station_coords: MetaDataError for a missing coordinate, AttributeError
\* for one that is no number
get_station_coords(sd) ==
    IF \E i \in 1..3 : ~HasKey(sd.meta, STANDARD_COORD_KEYS[i])
                       \/ sd.meta[STANDARD_COORD_KEYS[i]] = None
    THEN [exc |-> "MetaDataError"]
    ELSE IF \E i \in 1..3 : sd.meta[STANDARD_COORD_KEYS[i]].t # "num"
    THEN [exc |-> "AttributeError"]
    ELSE [exc |-> "",
          latitude |-> sd.meta["latitude"].n,
          longitude |-> sd.meta["longitude"].n,
          altitude |-> sd.meta["altitude"].n]

\* pyaerocom.geodesy.calc_distance, squared (m^2)
calc_distance_sq(lat0, lon0, lat1, lon1, alt0, alt1) ==
    (lat0 - lat1) * (lat0 - lat1) + (lon0 - lon1) * (lon0 - lon1)
        + (alt0 - alt1) * (alt0 - alt1)

\* dist_other, squared; [exc, d2]
dist_other_sq(sd, other) ==
    LET cthis == get_station_coords(sd)
        cother == get_station_coords(other) IN
    IF cthis.exc # "" THEN [exc |-> cthis.exc, d2 |-> 0]
    ELSE IF cother.exc # "" THEN [exc |-> cother.exc, d2 |-> 0]
    ELSE [exc |-> "",
          d2 |-> calc_distance_sq(cthis.latitude, cthis.longitude,
                                  cother.latitude, cother.longitude,
                                  cthis.altitude, cother.altitude)]

\* same_coords(other, tol_km); tol_km is None (selects _COORD_MAX_VAR) or a
\* number, here of metres; [exc, same]
same_coords(sd, other, tol_km) ==
    LET tol == IF tol_km = None THEN COORD_MAX_VAR ELSE tol_km.n
        d == dist_other_sq(sd, other) IN
    [exc |-> d.exc, same |-> d.exc = "" /\ d.d2 < tol * tol]

---------------------------------------------------------------------------
(* StationData.merge_meta_same_station *)

IsCoordKey(k) == InSeq(k, STANDARD_COORD_KEYS)

\* one iteration of `for key in keys`; s = [self, obj, exc]; with inplace obj
\* and self are the same object
merge_meta_key(s, other, key, inplace) ==
    IF key = "station_name" THEN s
    ELSE IF IsCoordKey(key) THEN
        IF s.self.meta[key] = None /\ other.meta[key] # None
        THEN LET new == [s.self EXCEPT !.meta = SetKey(@, key, other.meta[key])] IN
             [s EXCEPT !.self = new,
                       !.obj = IF inplace THEN new ELSE @]
        ELSE s
    ELSE IF HasKey(other.meta, key) /\ other.meta[key] # None THEN
        LET present == HasKey(s.obj.meta, key)
            r == append_meta_item(present,
                                  IF present THEN s.obj.meta[key] ELSE None,
                                  other.meta[key])
            new == [s.obj EXCEPT !.meta = SetKey(@, key, r.val)] IN
        IF r.exc # "" THEN [s EXCEPT !.exc = r.exc]
        ELSE [s EXCEPT !.obj = new,
                       !.self = IF inplace THEN new ELSE @]
    ELSE s

RECURSIVE merge_meta_keys(_, _, _, _)
merge_meta_keys(s, other, keys, inplace) ==
    IF keys = <<>> \/ s.exc # "" THEN s
    ELSE Only({merge_meta_keys(n, other, Tail(keys), inplace) :
                 n \in {merge_meta_key(s, other, Head(keys), inplace)}})

\* the coordinate check of merge_meta_same_station (lines 286-292): the
\* exception it lets through, "" when it lets the merge go on
check_coords_exc(sd, other, coord_tol_km) ==
    LET r == same_coords(sd, other, coord_tol_km) IN
    IF r.exc = "MetaDataError" THEN "" ELSE r.exc

\* merge_meta_same_station(other, coord_tol_km, check_coords, inplace,
\* **add_meta_keys) with the class-level key list `keys`;
\* [self, obj, keys, exc]: self afterwards, the object returned, the
\* class-level list afterwards, the exception raised
merge_meta_same_station(sd, keys, other, coord_tol_km, check_coords, inplace, add_meta_keys) ==
    IF other.meta["station_name"] # sd.meta["station_name"]
    THEN [self |-> sd, obj |-> sd, keys |-> keys, exc |-> "ValueError"]
    ELSE LET cexc == IF check_coords
                     THEN check_coords_exc(sd, other, coord_tol_km) ELSE "" IN
         IF cexc # ""
         THEN [self |-> sd, obj |-> sd, keys |-> keys, exc |-> cexc]
         ELSE LET keys2 == keys \o add_meta_keys
                  r == merge_meta_keys([self |-> sd, obj |-> sd, exc |-> ""],
                                       other, keys2, inplace) IN
              [self |-> r.self, obj |-> r.obj, keys |-> keys2, exc |-> r.exc]

---------------------------------------------------------------------------
(* pandas.Series: a sequence of samples [t, v], v a number or NaN *)

Sample(t, v) == [t |-> t, v |-> v]

index(s) == {s[i].t : i \in 1..Len(s)}

IsNotNaN(x) == x.v # NaN

dropna(s) == SelectSeq(s, IsNotNaN)

\* Series.sort_index(): samples with equal timestamps keep their order
RECURSIVE insert_sorted(_, _)
insert_sorted(s, x) ==
    IF s = <<>> THEN <<x>>
    ELSE IF s[Len(s)].t <= x.t THEN Append(s, x)
    ELSE Append(insert_sorted(SubSeq(s, 1, Len(s) - 1), x), s[Len(s)])

RECURSIVE sort_index(_)
sort_index(s) ==
    IF s = <<>> THEN <<>>
    ELSE insert_sorted(sort_index(SubSeq(s, 1, Len(s) - 1)), s[Len(s)])

\* s[overlap]: the samples of s whose timestamp is in the index `labels`
select_index(s, labels) ==
    LET Keep(x) == x.t \in labels IN SelectSeq(s, Keep)

\* a name bound to a Series or to None
SeriesObj(s) == [isNone |-> FALSE, s |-> s]
NoneObj == [isNone |-> TRUE, s |-> <<>>]

\* the value of s1.drop(index=overlap, inplace=True): with inplace=True
\* drop returns None
drop_inplace(s1, overlap) == NoneObj

\* pd.concat([s0, s1]) for a Series s0: a None entry is dropped silently
concat(s0, s1) == IF s1.isNone THEN s0 ELSE s0 \o s1.s

---------------------------------------------------------------------------
(* StationData.merge_varinfo *)

\* iteration order of the var_info dicts
INFO_KEYS == <<"overlap", "unit", "wavelength_nm">>

\* the body of `for key, val in info_other.items()`;
\* [val, set, exc]: the value to store, whether a store happens, the exception
merge_varinfo_item(present, cur, val) ==
    IF ~present \/ cur = None THEN [val |-> val, set |-> TRUE, exc |-> ""]
    ELSE IF IsStr(cur)
    THEN LET r == merge_str(cur, val) IN
         [val |-> r.val, set |-> r.exc = "", exc |-> r.exc]
    ELSE IF IsList(val)
    THEN IF Len(val.l) = 0 THEN [val |-> cur, set |-> FALSE, exc |-> ""]
         ELSE IF IsList(cur)
         THEN IF cur = val THEN [val |-> cur, set |-> FALSE, exc |-> ""]
              ELSE [val |-> PyList(<<cur, val>>), set |-> TRUE,
                    exc |-> "ValueError"]
         ELSE [val |-> cur, set |-> FALSE, exc |-> "ValueError"]
    ELSE LET r == merge_nonstr(cur, val) IN
         [val |-> r.val, set |-> TRUE, exc |-> ""]

\* s = [info, exc]
RECURSIVE merge_varinfo_keys(_, _, _)
merge_varinfo_keys(s, info_other, keys) ==
    IF keys = <<>> \/ s.exc # "" THEN s
    ELSE LET key == Head(keys) IN
         IF ~HasKey(info_other, key)
         THEN merge_varinfo_keys(s, info_other, Tail(keys))
         ELSE LET present == HasKey(s.info, key)
                  r == merge_varinfo_item(present,
                                          IF present THEN s.info[key] ELSE None,
                                          info_other[key]) IN
              Only({merge_varinfo_keys(n, info_other, Tail(keys)) :
                      n \in {[info |-> IF r.set THEN SetKey(s.info, key, r.val)
                                       ELSE s.info,
                              exc |-> r.exc]}})

\* merge_varinfo(other, var_name); [self, exc]
merge_varinfo(sd, other, var_name) ==
    IF ~HasKey(sd.var_info, var_name) THEN [self |-> sd, exc |-> "KeyError"]
    ELSE LET r == merge_varinfo_keys([info |-> sd.var_info[var_name], exc |-> ""],
                                     other.var_info[var_name], INFO_KEYS) IN
         [self |-> [sd EXCEPT !.var_info = SetKey(@, var_name, r.info)],
          exc |-> r.exc]

---------------------------------------------------------------------------
(* StationData.merge_vardata *)

\* variant of store_overlap in which the samples of the last merge replace
\* the stored ones
store_overlap_overwrite(overlap, var_name, removed) ==
    SetKey(overlap, var_name, removed)

\* lines 441-447: the new value of self.overlap
store_overlap(overlap, var_name, removed) ==
    IF HasKey(overlap, var_name)
    THEN SetKey(overlap, var_name, sort_index(overlap[var_name] \o removed))
    ELSE SetKey(overlap, var_name, removed)

\* lines 419-449, after the availability checks; [self, exc]
merge_vardata_body(sd, other, var_name) ==
    LET s0 == dropna(sd.data[var_name])
        s1 == dropna(other.data[var_name])
        info == other.var_info[var_name] IN
    IF ~HasKey(info, "overlap") THEN [self |-> sd, exc |-> "KeyError"]
    ELSE IF Truthy(info["overlap"])
    THEN [self |-> sd, exc |-> "NotImplementedError"]
    ELSE IF Len(s1) > 0
    THEN LET overlap == index(s0) \cap index(s1)
             removed == select_index(s1, overlap)
             s1b == IF overlap # {} THEN drop_inplace(s1, overlap)
                    ELSE SeriesObj(s1)
             merged == sort_index(concat(s0, s1b))
             mi == merge_varinfo(sd, other, var_name) IN
         IF mi.exc # "" THEN mi
         ELSE [self |-> [mi.self EXCEPT
                           !.data = SetKey(@, var_name, merged),
                           !.overlap = IF overlap # {}
                                       THEN store_overlap(@, var_name, removed)
                                       ELSE @],
               exc |-> ""]
    ELSE [self |-> [sd EXCEPT !.data = SetKey(@, var_name, s0)], exc |-> ""]

\* merge_vardata(other, var_name); [self, exc]
merge_vardata(sd, other, var_name) ==
    IF ~HasKey(sd.data, var_name) \/ ~HasKey(other.data, var_name)
    THEN [self |-> sd, exc |-> "VarNotAvailableError"]
    ELSE IF ~HasKey(sd.var_info, var_name) \/ ~HasKey(other.var_info, var_name)
    THEN [self |-> sd, exc |-> "MetaDataError"]
    ELSE merge_vardata_body(sd, other, var_name)

\* merge_other(other, var_name, **add_meta_keys); [self, keys, exc]
merge_other(sd, keys, other, var_name, add_meta_keys) ==
    LET then_vardata(m) ==
            IF m.exc # "" THEN [self |-> m.self, keys |-> m.keys, exc |-> m.exc]
            ELSE LET v == merge_vardata(m.self, other, var_name) IN
                 [self |-> v.self, keys |-> m.keys, exc |-> v.exc] IN
    Only({then_vardata(m) :
            m \in {merge_meta_same_station(sd, keys, other, None, TRUE, TRUE,
                                           add_meta_keys)}})

---------------------------------------------------------------------------
(* The StationData objects the calls are made with *)

VAR_NAME == "od550aer"

MaxMetaKeys == 7
MaxOverlap == 2

\* a StationData with the standard metadata keys set and at most one variable
Station(name, lat, instr, level, data, var_info) ==
    [meta |-> [station_name |-> PyStr(name), latitude |-> lat,
               longitude |-> PyNum(0), altitude |-> PyNum(0),
               instrument_name |-> instr, data_level |-> level],
     dtime |-> IF HasKey(data, VAR_NAME)
               THEN [i \in 1..Len(data[VAR_NAME]) |-> data[VAR_NAME][i].t]
               ELSE <<>>,
     data |-> data,
     var_info |-> var_info,
     overlap |-> EmptyDict]

WithMeta(sd, key, val) == [sd EXCEPT !.meta = SetKey(@, key, val)]

Data(series) == [x \in {VAR_NAME} |-> series]
Info(d) == [x \in {VAR_NAME} |-> d]

S_a == <<"a">>
S_b == <<"b">>
S_bb == <<"b", ";", "b">>
S_c == <<"c">>

NoData == Data(<<>>)
PlainInfo == Info([overlap |-> PyBool(FALSE)])

\* records of one station that differ in their metadata
MetaPool ==
    { Station(<<"A">>, PyNum(0), PyStr(S_a), PyNum(1), NoData, PlainInfo),
      Station(<<"A">>, PyNum(50), PyStr(S_bb), PyNum(2), NoData, PlainInfo),
      Station(<<"A">>, PyNum(150), None, None, NoData, PlainInfo),
      WithMeta(Station(<<"A">>, PyNum(50), None, PyList(<<PyNum(1)>>),
                       NoData, PlainInfo),
               "PI", PyNum(3)),
      Station(<<"A">>, None, None, None, EmptyDict, EmptyDict),
      Station(<<"A">>, PyNum(0), PyStr(S_bb), PyNum(1), NoData, PlainInfo),
      Station(<<"B">>, PyNum(0), PyStr(S_a), PyNum(1), NoData, PlainInfo) }

DataStation(data, var_info) ==
    Station(<<"A">>, PyNum(0), PyStr(S_a), PyNum(1), data, var_info)

\* records of one station that differ in their data
DataPool ==
    { DataStation(Data(<<Sample(1, PyNum(1)), Sample(2, PyNum(2))>>),
                  Info([overlap |-> PyBool(FALSE), unit |-> PyStr(S_a),
                        wavelength_nm |-> PyNum(440)])),
      DataStation(Data(<<Sample(2, PyNum(3)), Sample(3, PyNum(4))>>),
                  Info([overlap |-> PyBool(FALSE), unit |-> PyStr(S_b)])),
      DataStation(Data(<<Sample(1, NaN), Sample(3, PyNum(5))>>),
                  Info([overlap |-> PyBool(FALSE), unit |-> PyStr(S_a),
                        wavelength_nm |-> PyList(<<PyNum(440)>>)])),
      DataStation(Data(<<Sample(3, PyNum(6))>>), Info([unit |-> PyStr(S_a)])),
      DataStation(Data(<<Sample(1, PyNum(7))>>),
                  Info([overlap |-> PyBool(TRUE)])),
      DataStation(Data(<<Sample(2, PyNum(8))>>), EmptyDict) }

\* arguments of merge_meta_same_station:
\* coord_tol_km (metres), check_coords, inplace, **add_meta_keys
MetaArgs(tol, check, inplace, add) ==
    [coord_tol_km |-> tol, check_coords |-> check, inplace |-> inplace,
     add_meta_keys |-> add]

MetaArgsPool ==
    { MetaArgs(None, TRUE, TRUE, <<>>),
      MetaArgs(PyNum(200), TRUE, TRUE, <<>>),
      MetaArgs(None, FALSE, TRUE, <<>>),
      MetaArgs(None, TRUE, FALSE, <<>>),
      MetaArgs(None, TRUE, TRUE, <<"PI">>) }

AddKeysPool == {<<>>, <<"PI">>}

NoCall ==
    [op |-> "", exc |-> "", pre |-> None, prekeys |-> <<>>, other |-> None,
     ret |-> None, var_name |-> "", args |-> MetaArgs(None, FALSE, FALSE, <<>>)]

---------------------------------------------------------------------------
(* Idle values of the variables a specification does not use *)

IdleSetup == [t |-> "None"]
IdleRun == [t |-> "None"]
IdleCfg == [t |-> "None"]
IdleCodec == [t |-> "None"]
IdleTree == [t |-> "None"]
IdleSobs == [t |-> "None"]
IdleColdir == [t |-> "None"]
IdleConf == [t |-> "None"]
IdleCache == [t |-> "None"]
IdleReader == [t |-> "None"]

---------------------------------------------------------------------------
(* Specification Spec: merge calls on one StationData object *)

OverlapLen(sd) ==
    IF HasKey(sd.overlap, VAR_NAME) THEN Len(sd.overlap[VAR_NAME]) ELSE 0

Init ==
    /\ stations \in {MetaPool, DataPool}
    /\ self \in stations
    /\ STANDARD_META_KEYS = <<"station_name", "latitude", "longitude",
                              "altitude", "instrument_name", "data_level">>
    /\ last = NoCall
    /\ setup = IdleSetup
    /\ run = IdleRun
    /\ cfg = IdleCfg
    /\ codec = IdleCodec
    /\ tree = IdleTree
    /\ sobs = IdleSobs
    /\ coldir = IdleColdir
    /\ conf = IdleConf
    /\ cache = IdleCache
    /\ reader = IdleReader

MergeMetaSameStation ==
    \E other \in stations, a \in MetaArgsPool :
        \E r \in {merge_meta_same_station(self, STANDARD_META_KEYS, other,
                                           a.coord_tol_km, a.check_coords,
                                           a.inplace, a.add_meta_keys)} :
        /\ Len(r.keys) <= MaxMetaKeys
        /\ self' = r.self
        /\ STANDARD_META_KEYS' = r.keys
        /\ last' = [op |-> "merge_meta_same_station", exc |-> r.exc,
                    pre |-> self, prekeys |-> STANDARD_META_KEYS,
                    other |-> other, ret |-> r.obj, var_name |-> "",
                    args |-> a]
        /\ UNCHANGED <<stations, evars, cvars, kvars, tvars, ovars, xvars>>

MergeVardata ==
    \E other \in stations :
        \E r \in {merge_vardata(self, other, VAR_NAME)} :
        /\ OverlapLen(r.self) <= MaxOverlap
        /\ self' = r.self
        /\ last' = [op |-> "merge_vardata", exc |-> r.exc,
                    pre |-> self, prekeys |-> STANDARD_META_KEYS,
                    other |-> other, ret |-> r.self, var_name |-> VAR_NAME,
                    args |-> MetaArgs(None, FALSE, TRUE, <<>>)]
        /\ UNCHANGED <<stations, STANDARD_META_KEYS, evars, cvars, kvars, tvars, ovars, xvars>>

MergeOther ==
    \E other \in stations, add \in AddKeysPool :
        \E r \in {merge_other(self, STANDARD_META_KEYS, other, VAR_NAME, add)} :
        /\ Len(r.keys) <= MaxMetaKeys
        /\ OverlapLen(r.self) <= MaxOverlap
        /\ self' = r.self
        /\ STANDARD_META_KEYS' = r.keys
        /\ last' = [op |-> "merge_other", exc |-> r.exc,
                    pre |-> self, prekeys |-> STANDARD_META_KEYS,
                    other |-> other, ret |-> r.self, var_name |-> VAR_NAME,
                    args |-> MetaArgs(None, TRUE, TRUE, add)]
        /\ UNCHANGED <<stations, evars, cvars, kvars, tvars, ovars, xvars>>

Next == MergeMetaSameStation \/ MergeVardata \/ MergeOther

Spec == Init /\ [][Next]_vars

---------------------------------------------------------------------------
(* Properties of the StationData merge (checked under Spec) *)

IsCall(op) == last.op = op
Succeeded == last.exc = ""

\* the non-NaN samples of a series, as a set
NonNaN(series) == {series[i] : i \in {j \in 1..Len(series) : series[j].v # NaN}}

Times(samples) == {x.t : x \in samples}

SeriesOf(sd, var) == IF HasKey(sd.data, var) THEN sd.data[var] ELSE <<>>
OverlapOf(sd, var) == IF HasKey(sd.overlap, var) THEN sd.overlap[var] ELSE <<>>

Count(series, x) == Cardinality({i \in 1..Len(series) : series[i] = x})

StrictlySorted(series) ==
    \A i \in 1..Len(series), j \in 1..Len(series) :
        i < j => series[i].t < series[j].t

\* the tolerance (metres) a call of merge_meta_same_station checks against
TolOf(args) ==
    IF args.coord_tol_km = None THEN COORD_MAX_VAR ELSE args.coord_tol_km.n

SameStationName(a, b) == a.meta["station_name"] = b.meta["station_name"]

\* C1: merge_meta_same_station with check_coords=True fails with
\* MetaDataError whenever the two stations (of the same name, both with
\* coordinates) are further apart than coord_tol_km (default _COORD_MAX_VAR).
C1_FarStationsRaise ==
    (/\ IsCall("merge_meta_same_station")
     /\ last.args.check_coords
     /\ SameStationName(last.pre, last.other)
     /\ dist_other_sq(last.pre, last.other).exc = ""
     /\ dist_other_sq(last.pre, last.other).d2
            > TolOf(last.args) * TolOf(last.args))
    => last.exc = "MetaDataError"

\* C2: merge_other is atomic on failure: when it raises, self is exactly as
\* before the call (metadata, dtime, data, var_info and overlap).
C2_AtomicOnFailure ==
    (IsCall("merge_other") /\ ~Succeeded) => self = last.pre

\* C3: after a successful merge_vardata no non-NaN sample of other is lost:
\* self's series is exactly the non-NaN samples of self plus the non-NaN
\* samples of other at timestamps self does not have, sorted with unique
\* timestamps, and the non-NaN samples of other at timestamps self has are
\* in self.overlap.
C3_NoSampleLost ==
    (IsCall("merge_vardata") /\ Succeeded) =>
        LET s0 == NonNaN(SeriesOf(last.pre, last.var_name))
            s1 == NonNaN(SeriesOf(last.other, last.var_name))
            now == SeriesOf(self, last.var_name) IN
        /\ SeqToSet(now) = s0 \cup {x \in s1 : x.t \notin Times(s0)}
        /\ StrictlySorted(now)
        /\ \A x \in s1 : x.t \in Times(s0) =>
               InSeq(x, OverlapOf(self, last.var_name))

\* the elements of l, each once, in order of first appearance
RECURSIVE FirstAppearances(_)
FirstAppearances(l) ==
    IF l = <<>> THEN <<>>
    ELSE LET front == FirstAppearances(SubSeq(l, 1, Len(l) - 1)) IN
         IF InSeq(l[Len(l)], front) THEN front ELSE Append(front, l[Len(l)])

\* the metadata keys a call of merge_meta_same_station merges: the key list
\* after the call without station_name and the coordinates
MergedKeys ==
    {k \in SeqToSet(STANDARD_META_KEYS) : k # "station_name" /\ ~IsCoordKey(k)}

BothStr(a, b, k) ==
    /\ HasKey(a.meta, k) /\ HasKey(b.meta, k)
    /\ IsStr(a.meta[k]) /\ IsStr(b.meta[k])

\* C4: merging a string field gives self's original tokens followed by the
\* tokens of other's value that were not present, each once, in order of
\* first appearance.
C4_TokensDeduplicated ==
    (IsCall("merge_meta_same_station") /\ Succeeded /\ last.args.inplace) =>
        \A k \in MergedKeys :
            BothStr(last.pre, last.other, k) =>
                LET mine == last.pre.meta[k].s
                    new == SelectSeq(
                        FirstAppearances(stripped_tokens(last.other.meta[k].s)),
                        LAMBDA tok : ~InSeq(tok, stripped_tokens(mine))) IN
                /\ IsStr(self.meta[k])
                /\ split(self.meta[k].s) = split(mine) \o new

\* the values stored under a metadata key, as a set: the stripped tokens of
\* a str, the elements of a list, the value itself otherwise
ValueSet(sd, k) ==
    IF ~HasKey(sd.meta, k) \/ sd.meta[k] = None THEN {}
    ELSE IF IsStr(sd.meta[k]) THEN SeqToSet(stripped_tokens(sd.meta[k].s))
    ELSE IF IsList(sd.meta[k]) THEN SeqToSet(sd.meta[k].l)
    ELSE {sd.meta[k]}

\* merging last.pre into last.other, with the arguments of the last call
Reverse ==
    merge_meta_same_station(last.other, last.prekeys, last.pre,
                            last.args.coord_tol_km, last.args.check_coords,
                            TRUE, last.args.add_meta_keys)

WithinTolerance ==
    /\ dist_other_sq(last.pre, last.other).exc = ""
    /\ dist_other_sq(last.pre, last.other).d2
           < TolOf(last.args) * TolOf(last.args)

Intersecting ==
    LET s0 == NonNaN(SeriesOf(last.pre, last.var_name)) IN
    SelectSeq(SeriesOf(last.other, last.var_name),
              LAMBDA x : x.v # NaN /\ x.t \in Times(s0))

\* C6: a successful merge_vardata only adds to self.overlap[var_name]: it
\* holds every sample it held before plus the samples of other whose
\* timestamps intersect self's series, each as often as before plus as
\* often as it was sidelined by this call.
C6_OverlapAccumulates ==
    (IsCall("merge_vardata") /\ Succeeded) =>
        LET before == OverlapOf(last.pre, last.var_name)
            now == OverlapOf(self, last.var_name) IN
        /\ Len(now) = Len(before) + Len(Intersecting)
        /\ \A x \in SeqToSet(now) \cup SeqToSet(before) \cup SeqToSet(Intersecting) :
               Count(now, x) = Count(before, x) + Count(Intersecting, x)

\* a merge that sidelined samples into an overlap that already held some
C6_Witness ==
    /\ IsCall("merge_vardata") /\ Succeeded
    /\ OverlapOf(last.pre, last.var_name) # <<>>
    /\ Intersecting # <<>>

\* C7: for every variable the length of its data series equals the length
\* of dtime.
C7_DataLenEqualsDtimeLen ==
    \A var \in DOMAIN self.data : Len(self.data[var]) = Len(self.dtime)

---------------------------------------------------------------------------
(* ExperimentSetup.run_evaluation: the matrix of (model, obs) entries.     *)
(* A colocated data file is named by the variable it holds; the steps of   *)
(* an entry that read or write data can fail, which is the entry's fault:  *)
(* the step that raises when it is executed and the variable it raises for *)

Fault(step, var) == [step |-> step, var |-> var]
NoFault == Fault("", "")

\* an entry of obs_config
ObsEntry(obs_vars, is_superobs, only_superobs) ==
    [obs_vars |-> obs_vars, is_superobs |-> is_superobs,
     only_superobs |-> only_superobs]

\* process_vars: [var_name] for a str, the obs_vars of the entry otherwise
process_vars(obs_vars, var_name) ==
    IF IsStr(var_name) THEN <<var_name.s>> ELSE obs_vars

\* the part of l before its element x
Before(l, x) ==
    SubSeq(l, 1, (CHOOSE i \in 1..Len(l) : l[i] = x) - 1)

Without(l, x) == SelectSeq(l, LAMBDA y : y # x)

\* Colocator.run(var_name); [files, warned, exc]: files_written, whether a
\* failure was logged, the exception raised.  A failing variable is raised
\* with raise_exceptions and logged and skipped without.
Colocator_run(raise_exceptions, obs_vars, var_name, fault) ==
    LET todo == process_vars(obs_vars, var_name)
        bad == fault.step = "run" /\ InSeq(fault.var, todo) IN
    IF ~bad THEN [files |-> todo, warned |-> FALSE, exc |-> ""]
    ELSE IF raise_exceptions
    THEN [files |-> Before(todo, fault.var), warned |-> FALSE,
          exc |-> "ColocationError"]
    ELSE [files |-> Without(todo, fault.var), warned |-> TRUE, exc |-> ""]

\* Colocator.get_available_coldata_files(): the files of an earlier run
get_available_coldata_files(obs_vars) == obs_vars

\* make_json_files(files); [converted, exc]
make_json_files(files, fault) ==
    IF fault.step = "make_json_files" /\ InSeq(fault.var, files)
    THEN [converted |-> Before(files, fault.var), exc |-> "Exception"]
    ELSE [converted |-> files, exc |-> ""]

\* what _run_single_entry did for one (model, obs) pair
Entry(model_name, obs_name, route, steps, files, json, merged, warned, exc) ==
    [model_name |-> model_name, obs_name |-> obs_name, route |-> route,
     steps |-> steps, files |-> files, json |-> json, merged |-> merged,
     warned |-> warned, exc |-> exc]

\* _run_superobs_entry(model_name, superobs_name, var_name);
\* [merged, warned, exc]: the variables merged and converted, whether a
\* failure was logged, the exception raised
run_superobs_entry(st, model_name, superobs_name, var_name, fault) ==
    LET todo == process_vars(st.obs_config[superobs_name].obs_vars, var_name)
        bad == fault.step = "_run_superobs_entry_var" /\ InSeq(fault.var, todo) IN
    IF ~bad THEN [merged |-> todo, warned |-> FALSE, exc |-> ""]
    ELSE IF st.raise_exceptions
    THEN [merged |-> Before(todo, fault.var), warned |-> FALSE,
          exc |-> "Exception"]
    ELSE [merged |-> Without(todo, fault.var), warned |-> TRUE, exc |-> ""]

\* variant of run_regular_entry that does not look at only_colocation
run_regular_entry_always_json(st, model_name, obs_name, var_name, fault) ==
    LET obs_vars == st.obs_config[obs_name].obs_vars
        col == IF st.only_json
               THEN [files |-> get_available_coldata_files(obs_vars),
                     warned |-> FALSE, exc |-> ""]
               ELSE Colocator_run(st.raise_exceptions, obs_vars, var_name, fault)
        step2 == IF st.only_json THEN "get_available_coldata_files" ELSE "run"
        js == make_json_files(col.files, fault) IN
    IF fault.step = "init_colocator"
    THEN Entry(model_name, obs_name, "regular", <<"init_colocator">>,
               <<>>, <<>>, <<>>, FALSE, "Exception")
    ELSE IF col.exc # ""
    THEN Entry(model_name, obs_name, "regular", <<"init_colocator", step2>>,
               col.files, <<>>, <<>>, col.warned, col.exc)
    ELSE Entry(model_name, obs_name, "regular",
               <<"init_colocator", step2, "make_json_files">>,
               col.files, js.converted, <<>>, col.warned, js.exc)

\* the else branch of _run_single_entry (lines 1555-1568)
run_regular_entry(st, model_name, obs_name, var_name, fault) ==
    LET obs_vars == st.obs_config[obs_name].obs_vars
        col == IF st.only_json
               THEN [files |-> get_available_coldata_files(obs_vars),
                     warned |-> FALSE, exc |-> ""]
               ELSE Colocator_run(st.raise_exceptions, obs_vars, var_name, fault)
        step2 == IF st.only_json THEN "get_available_coldata_files" ELSE "run"
        js == make_json_files(col.files, fault) IN
    IF fault.step = "init_colocator"
    THEN Entry(model_name, obs_name, "regular", <<"init_colocator">>,
               <<>>, <<>>, <<>>, FALSE, "Exception")
    ELSE IF col.exc # ""
    THEN Entry(model_name, obs_name, "regular", <<"init_colocator", step2>>,
               col.files, <<>>, <<>>, col.warned, col.exc)
    ELSE IF st.only_colocation
    THEN Entry(model_name, obs_name, "regular", <<"init_colocator", step2>>,
               col.files, <<>>, <<>>, col.warned, "")
    ELSE Entry(model_name, obs_name, "regular",
               <<"init_colocator", step2, "make_json_files">>,
               col.files, js.converted, <<>>, col.warned, js.exc)

\* variant of _run_single_entry that handles an only_superobs entry like a
\* regular one
run_single_entry_only_superobs_regular(st, model_name, obs_name, var_name, fault) ==
    IF model_name = obs_name
    THEN Entry(model_name, obs_name, "same_dataset", <<>>, <<>>, <<>>, <<>>,
               FALSE, "")
    ELSE IF st.obs_config[obs_name].is_superobs
    THEN LET r == run_superobs_entry(st, model_name, obs_name, var_name, fault) IN
         Entry(model_name, obs_name, "superobs", <<"_run_superobs_entry">>,
               <<>>, <<>>, r.merged,
               r.warned \/ (r.exc # "" /\ ~st.raise_exceptions),
               IF st.raise_exceptions THEN r.exc ELSE "")
    ELSE run_regular_entry(st, model_name, obs_name, var_name, fault)

\* _run_single_entry(model_name, obs_name, var_name)
run_single_entry(st, model_name, obs_name, var_name, fault) ==
    IF model_name = obs_name
    THEN Entry(model_name, obs_name, "same_dataset", <<>>, <<>>, <<>>, <<>>,
               FALSE, "")
    ELSE IF st.obs_config[obs_name].is_superobs
    THEN LET r == run_superobs_entry(st, model_name, obs_name, var_name, fault) IN
         Entry(model_name, obs_name, "superobs", <<"_run_superobs_entry">>,
               <<>>, <<>>, r.merged,
               r.warned \/ (r.exc # "" /\ ~st.raise_exceptions),
               IF st.raise_exceptions THEN r.exc ELSE "")
    ELSE IF st.obs_config[obs_name].only_superobs
    THEN Entry(model_name, obs_name, "only_superobs", <<>>, <<>>, <<>>, <<>>,
               FALSE, "")
    ELSE run_regular_entry(st, model_name, obs_name, var_name, fault)

---------------------------------------------------------------------------
(* Specification SpecEval: one call of run_evaluation *)

EVAL_VARS == <<"od550aer", "ang4487aer">>

\* obs_config: a regular network, a network used only as part of a
\* super-observation, and the super-observation
ObsConfig ==
    [A |-> ObsEntry(EVAL_VARS, FALSE, FALSE),
     B |-> ObsEntry(EVAL_VARS, FALSE, TRUE),
     S |-> ObsEntry(EVAL_VARS, TRUE, FALSE)]

\* an ExperimentSetup; obs_list and model_list are list(self.obs_config) and
\* list(self.model_config); the model "A" is named like the obs network "A"
EvalSetup(raise_exceptions, only_json, only_colocation, add_maps, only_maps) ==
    [obs_config |-> ObsConfig,
     obs_list |-> <<"A", "B", "S">>,
     model_list |-> <<"M", "A">>,
     raise_exceptions |-> raise_exceptions,
     only_json |-> only_json,
     only_colocation |-> only_colocation,
     add_maps |-> add_maps,
     only_maps |-> only_maps]

SetupPool ==
    {EvalSetup(r, j, c, m, FALSE) : r \in BOOLEAN, j \in BOOLEAN, c \in BOOLEAN,
                                    m \in BOOLEAN}
    \cup {EvalSetup(r, FALSE, FALSE, TRUE, TRUE) : r \in BOOLEAN}

FaultPool ==
    {NoFault, Fault("init_colocator", "")}
    \cup {Fault(s, v) : s \in {"run", "make_json_files", "_run_superobs_entry_var"},
                        v \in SeqToSet(EVAL_VARS)}

VarNamePool == {None, PyStr("od550aer")}

\* run before run_evaluation is called
NotStarted ==
    [pc |-> "idle", var_name |-> None, update_interface |-> FALSE,
     maps |-> <<>>, i |-> 1, j |-> 1, entries |-> <<>>, menu |-> FALSE,
     exc |-> ""]

IdleSelf == [t |-> "None"]

InitEval ==
    /\ setup \in SetupPool
    /\ run = NotStarted
    /\ self = IdleSelf
    /\ stations = {}
    /\ STANDARD_META_KEYS = <<>>
    /\ last = NoCall
    /\ cfg = IdleCfg
    /\ codec = IdleCodec
    /\ tree = IdleTree
    /\ sobs = IdleSobs
    /\ coldir = IdleColdir
    /\ conf = IdleConf
    /\ cache = IdleCache
    /\ reader = IdleReader

\* run_evaluation up to the loop over the entries (lines 1601-1627)
RunEvaluation ==
    /\ run.pc = "idle"
    /\ \E var_name \in VarNamePool, update_interface \in BOOLEAN :
        run' = [run EXCEPT
                  !.pc = IF setup.only_maps THEN "update" ELSE "entries",
                  !.var_name = var_name,
                  !.update_interface = update_interface,
                  !.maps = IF setup.add_maps THEN setup.model_list ELSE <<>>]
    /\ UNCHANGED <<setup, svars, cvars, kvars, tvars, ovars, xvars>>

\* one pass of the inner loop (lines 1628-1630)
RunSingleEntry ==
    /\ run.pc = "entries"
    /\ \E fault \in FaultPool :
        \E e \in {run_single_entry(setup, setup.model_list[run.j],
                                   setup.obs_list[run.i], run.var_name, fault)} :
        run' = IF e.exc # ""
               THEN [run EXCEPT !.pc = "aborted", !.exc = e.exc,
                                !.entries = Append(@, e)]
               ELSE IF run.j < Len(setup.model_list)
               THEN [run EXCEPT !.j = @ + 1, !.entries = Append(@, e)]
               ELSE IF run.i < Len(setup.obs_list)
               THEN [run EXCEPT !.i = @ + 1, !.j = 1, !.entries = Append(@, e)]
               ELSE [run EXCEPT !.pc = "update", !.entries = Append(@, e)]
    /\ UNCHANGED <<setup, svars, cvars, kvars, tvars, ovars, xvars>>

\* the end of run_evaluation (lines 1632-1634): update_interface() calls
\* update_menu, which raises NameError in _sort_menu_entries before the menu
\* is written
UpdateInterface ==
    /\ run.pc = "update"
    /\ run' = IF run.update_interface
              THEN [run EXCEPT !.pc = "aborted", !.exc = "NameError"]
              ELSE [run EXCEPT !.pc = "done"]
    /\ UNCHANGED <<setup, svars, cvars, kvars, tvars, ovars, xvars>>

NextEval == RunEvaluation \/ RunSingleEntry \/ UpdateInterface

SpecEval == InitEval /\ [][NextEval]_vars

---------------------------------------------------------------------------
(* Properties of the evaluation run (checked under SpecEval) *)

Entries == {run.entries[k] : k \in 1..Len(run.entries)}

\* a failure occurred while the entry was processed
EntryFailed(e) == e.warned \/ e.exc # ""

MatrixSize == Len(setup.obs_list) * Len(setup.model_list)

\* C8: with raise_exceptions=False a failure in any single entry (regular or
\* super-observation) is logged and skipped: the run is never aborted, and
\* when it ends every entry of the matrix was processed and the menu was
\* rebuilt; with raise_exceptions=True the first failure aborts the run.
C8_BestEffortBatch ==
    /\ ~setup.raise_exceptions =>
          /\ run.pc # "aborted"
          /\ \A e \in Entries : e.exc = ""
          /\ run.pc = "done" =>
                /\ ~setup.only_maps => Len(run.entries) = MatrixSize
                /\ run.update_interface => run.menu
    /\ setup.raise_exceptions =>
          \A k \in 1..Len(run.entries) :
              EntryFailed(run.entries[k]) =>
                  /\ k = Len(run.entries)
                  /\ run.entries[k].exc # ""
                  /\ run.pc = "aborted"

Regular(e) ==
    /\ ~setup.obs_config[e.obs_name].is_superobs
    /\ ~setup.obs_config[e.obs_name].only_superobs

\* C9 as stated: every pair handled by _run_single_entry takes one route:
\* is_superobs goes to the super-observation merge only; otherwise
\* only_superobs triggers neither colocation nor JSON aggregation; otherwise
\* colocation is run and then JSON aggregation on its output (unless a step
\* raised).
C9_ExactlyOneRoute ==
    \A e \in Entries :
        LET o == setup.obs_config[e.obs_name] IN
        IF o.is_superobs
        THEN e.steps = <<"_run_superobs_entry">> /\ e.files = <<>> /\ e.json = <<>>
        ELSE IF o.only_superobs
        THEN e.steps = <<>> /\ e.json = <<>> /\ e.merged = <<>>
        ELSE e.exc = "" =>
                 /\ e.steps = <<"init_colocator", "run", "make_json_files">>
                 /\ e.json = e.files

\* C9 as amended: a pair with model_name == obs_name is skipped whatever its
\* flags; every other pair takes one route: is_superobs goes to the
\* super-observation merge only; otherwise only_superobs triggers neither
\* colocation nor JSON aggregation; otherwise the colocator is initialised,
\* colocation is run unless only_json is set (then the available colocated
\* files are taken), and JSON aggregation is run on these files unless
\* only_colocation is set or an earlier step raised.
C9_RouteByFlags ==
    \A e \in Entries :
        LET o == setup.obs_config[e.obs_name] IN
        IF e.model_name = e.obs_name
        THEN e.steps = <<>> /\ e.files = <<>> /\ e.json = <<>> /\ e.merged = <<>>
        ELSE IF o.is_superobs
        THEN e.steps = <<"_run_superobs_entry">> /\ e.files = <<>> /\ e.json = <<>>
        ELSE IF o.only_superobs
        THEN e.steps = <<>> /\ e.files = <<>> /\ e.json = <<>> /\ e.merged = <<>>
        ELSE /\ e.merged = <<>>
             /\ Len(e.steps) >= 1 /\ e.steps[1] = "init_colocator"
             /\ Len(e.steps) >= 2 =>
                    e.steps[2] = (IF setup.only_json
                                  THEN "get_available_coldata_files" ELSE "run")
             /\ InSeq("make_json_files", e.steps) => ~setup.only_colocation
             /\ e.exc = "" =>
                    /\ Len(e.steps) = (IF setup.only_colocation THEN 2 ELSE 3)
                    /\ ~setup.only_colocation =>
                           e.steps[3] = "make_json_files" /\ e.json = e.files
             /\ \A v \in SeqToSet(e.json) : InSeq(v, e.files)

\* a finished run with only_colocation in which a regular pair was colocated
\* and a pair of one name, a super-observation and an only_superobs pair
\* were handled
C9_Witness ==
    /\ run.pc = "done" /\ setup.only_colocation /\ ~setup.only_json
    /\ \E e \in Entries : Regular(e) /\ e.model_name # e.obs_name
                          /\ e.files # <<>> /\ e.steps = <<"init_colocator", "run">>
    /\ \E e \in Entries : e.model_name = e.obs_name
    /\ \E e \in Entries : e.route = "superobs" /\ e.merged # <<>>
    /\ \E e \in Entries : e.route = "only_superobs"

---------------------------------------------------------------------------
(* ExperimentSetup.__init__ and check_config.  A name is the sequence of   *)
(* its characters; model_config and obs_config are given by the lists of   *)
(* their keys, in the order of the dict.                                   *)

NAME_WARN_LEN == 20
NAME_MAX_LEN == 25

EXP_STATUS_VALS == {"public", "experimental"}

\* the name checks in the loop of _check_model_config; [warned, exc]
check_model_name(mname) ==
    IF InSeq("_", mname) THEN [warned |-> FALSE, exc |-> "AttributeError"]
    ELSE IF Len(mname) > NAME_WARN_LEN THEN [warned |-> TRUE, exc |-> ""]
    ELSE IF Len(mname) > NAME_MAX_LEN THEN [warned |-> FALSE, exc |-> "ValueError"]
    ELSE [warned |-> FALSE, exc |-> ""]

\* the name checks in the loop of _check_obs_config; [warned, exc]
check_obs_name(oname) ==
    IF InSeq("_", oname) THEN [warned |-> FALSE, exc |-> "AttributeError"]
    ELSE IF Len(oname) > NAME_WARN_LEN THEN [warned |-> TRUE, exc |-> ""]
    ELSE IF Len(oname) > NAME_MAX_LEN THEN [warned |-> FALSE, exc |-> "ValueError"]
    ELSE [warned |-> FALSE, exc |-> ""]

\* _check_model_config(); s = [warnings, exc]
RECURSIVE check_model_config(_, _)
check_model_config(s, names) ==
    IF names = <<>> \/ s.exc # "" THEN s
    ELSE LET r == check_model_name(Head(names)) IN
         check_model_config(
             [warnings |-> IF r.warned THEN Append(s.warnings, Head(names))
                           ELSE s.warnings,
              exc |-> r.exc],
             Tail(names))

\* _check_obs_config(); s = [warnings, exc]
RECURSIVE check_obs_config(_, _)
check_obs_config(s, names) ==
    IF names = <<>> \/ s.exc # "" THEN s
    ELSE LET r == check_obs_name(Head(names)) IN
         check_obs_config(
             [warnings |-> IF r.warned THEN Append(s.warnings, Head(names))
                           ELSE s.warnings,
              exc |-> r.exc],
             Tail(names))

\* check_config(); [warnings, exc]
check_config(st) ==
    IF ~IsStr(st.proj_id) \/ ~IsStr(st.exp_id) \/ ~IsStr(st.exp_descr)
    THEN [warnings |-> <<>>, exc |-> "AttributeError"]
    ELSE IF ~IsStr(st.exp_status)
    THEN [warnings |-> <<>>, exc |-> "AttributeError"]
    ELSE IF st.exp_status.s \notin EXP_STATUS_VALS
    THEN [warnings |-> <<>>, exc |-> "ValueError"]
    ELSE check_obs_config(
             check_model_config([warnings |-> <<>>, exc |-> ""], st.model_config),
             st.obs_config)

\* ExperimentSetup(proj_id, exp_id, **settings): the attributes set by
\* update(**settings), then check_config()
ExperimentSetup(proj_id, exp_id, exp_status, model_config, obs_config) ==
    LET st == [proj_id |-> proj_id, exp_id |-> exp_id, exp_descr |-> PyStr(""),
               exp_status |-> exp_status, model_config |-> model_config,
               obs_config |-> obs_config]
        r == check_config(st) IN
    [pc |-> IF r.exc = "" THEN "constructed" ELSE "failed",
     st |-> st, warnings |-> r.warnings, exc |-> r.exc]

---------------------------------------------------------------------------
(* Specification SpecCfg: constructing an ExperimentSetup *)

MaxModels == 2
MaxObs == 1

\* a name of n characters without underscore
Pad(n) == [i \in 1..n |-> "x"]

NamePool ==
    { Pad(5), Pad(NAME_WARN_LEN), Pad(NAME_WARN_LEN + 1), Pad(NAME_MAX_LEN),
      Pad(NAME_MAX_LEN + 1), <<"a", "_", "b">>,
      <<"a", "_">> \o Pad(NAME_MAX_LEN) }

\* the lists of at most n different names
RECURSIVE NameLists(_)
NameLists(n) ==
    IF n = 0 THEN {<<>>}
    ELSE NameLists(n - 1)
         \cup {Append(l, x) : l \in {k \in NameLists(n - 1) : Len(k) = n - 1},
                              x \in NamePool}

Distinct(l) == \A i \in 1..Len(l), j \in 1..Len(l) : l[i] = l[j] => i = j

\* the scalar arguments: proj_id, exp_id, exp_status
ScalarPool ==
    { <<PyStr("proj"), PyStr("exp"), PyStr("experimental")>>,
      <<None, PyStr("exp"), PyStr("public")>>,
      <<PyStr("proj"), PyStr("exp"), PyStr("draft")>> }

InitCfg ==
    /\ cfg = IdleCfg
    /\ setup = IdleSetup
    /\ run = IdleRun
    /\ self = IdleSelf
    /\ stations = {}
    /\ STANDARD_META_KEYS = <<>>
    /\ last = NoCall
    /\ codec = IdleCodec
    /\ tree = IdleTree
    /\ sobs = IdleSobs
    /\ coldir = IdleColdir
    /\ conf = IdleConf
    /\ cache = IdleCache
    /\ reader = IdleReader

Construct ==
    /\ cfg = IdleCfg
    /\ \E sc \in ScalarPool,
          model_config \in {l \in NameLists(MaxModels) : Distinct(l)},
          obs_config \in {l \in NameLists(MaxObs) : Distinct(l)} :
        cfg' = ExperimentSetup(sc[1], sc[2], sc[3], model_config, obs_config)
    /\ UNCHANGED <<svars, evars, kvars, tvars, ovars, xvars>>

NextCfg == Construct

SpecCfg == InitCfg /\ [][NextCfg]_vars

---------------------------------------------------------------------------
(* Properties of the construction (checked under SpecCfg) *)

Constructing == cfg # IdleCfg

InvalidName(name) == InSeq("_", name) \/ Len(name) > NAME_MAX_LEN

\* C10: constructing an ExperimentSetup fails whenever a key of model_config
\* or obs_config contains '_' or is longer than 25 characters, so that no
\* constructed setup holds such a name.
C10_InvalidNamesRejected ==
    (/\ Constructing
     /\ \E name \in SeqToSet(cfg.st.model_config) \cup SeqToSet(cfg.st.obs_config) :
            InvalidName(name))
    => cfg.pc = "failed"

---------------------------------------------------------------------------
(* Map file names.  A file name is a str whose elements are its separators *)
(* ("_", "-", ":", ".", the ending ".json") and the separator-free pieces  *)
(* of text between them.                                                    *)

\* index of the first element sep in s, 0 when there is none
FirstIndex(s, sep) ==
    IF \E i \in 1..Len(s) : s[i] = sep
    THEN CHOOSE i \in 1..Len(s) : s[i] = sep /\ \A j \in 1..(i - 1) : s[j] # sep
    ELSE 0

\* s.split(sep)
RECURSIVE split_on(_, _)
split_on(s, sep) ==
    LET i == FirstIndex(s, sep) IN
    IF i = 0 THEN <<s>>
    ELSE <<SubSeq(s, 1, i - 1)>> \o split_on(SubSeq(s, i + 1, Len(s)), sep)

\* sep.join(parts)
RECURSIVE join(_, _)
join(sep, parts) ==
    IF parts = <<>> THEN <<>>
    ELSE IF Len(parts) = 1 THEN parts[1]
    ELSE parts[1] \o <<sep>> \o join(sep, Tail(parts))

\* os.path.basename(path)
basename(path) == LET p == split_on(path, "/") IN p[Len(p)]

\* the name of the map file of a result:
\* <obs_name>-<obs_var>_<vert_code>_<model_name>-<model_var>.json
map_file_name(oname, ovar, vert_code, mname, mvar) ==
    oname \o <<"-">> \o ovar \o <<"_">> \o vert_code \o <<"_">>
          \o mname \o <<"-">> \o mvar \o <<".json">>

MapInfo(oname, ovar, vert_code, mname, mvar, exc) ==
    [oname |-> oname, ovar |-> ovar, vert_code |-> vert_code, mname |-> mname,
     mvar |-> mvar, exc |-> exc]

\* variant of _info_from_map_file that takes the names up to their first '-'
info_from_map_file_first_piece(filename) ==
    LET spl == split_on(split_on(basename(filename), ".json")[1], "_") IN
    IF Len(spl) # 3
    THEN MapInfo(<<>>, <<>>, <<>>, <<>>, <<>>, "FileConventionError")
    ELSE LET mspl == split_on(spl[3], "-")
             ospl == split_on(spl[1], "-") IN
         MapInfo(ospl[1], ospl[Len(ospl)], spl[2],
                 mspl[1], mspl[Len(mspl)], "")

\* _info_from_map_file(filename)
info_from_map_file(filename) ==
    LET names(spl, mspl, ospl) ==
            MapInfo(join("-", SubSeq(ospl, 1, Len(ospl) - 1)), ospl[Len(ospl)],
                    spl[2],
                    join("-", SubSeq(mspl, 1, Len(mspl) - 1)), mspl[Len(mspl)], "")
        pieces(spl) ==
            IF Len(spl) # 3
            THEN MapInfo(<<>>, <<>>, <<>>, <<>>, <<>>, "FileConventionError")
            ELSE names(spl, split_on(spl[3], "-"), split_on(spl[1], "-")) IN
    pieces(split_on(split_on(basename(filename), ".json")[1], "_"))

---------------------------------------------------------------------------
(* Specification SpecCodec: a map file is written and its name parsed *)

\* names of obs networks and models: plain, with '-', holding ".json"
CodecNames == {<<"EEA">>, <<"EMEP">>, <<"EBAS", "-", "m">>, <<"run", ".json">>}

\* names of variables
CodecVars == {<<"concno2">>, <<"od550aer">>, <<"od550csaer">>,
              <<"conc", "-", "no2">>}

CodecVertCodes == {<<"Surface">>, <<"Column">>}

InitCodec ==
    /\ codec = IdleCodec
    /\ setup = IdleSetup
    /\ run = IdleRun
    /\ cfg = IdleCfg
    /\ tree = IdleTree
    /\ sobs = IdleSobs
    /\ self = IdleSelf
    /\ stations = {}
    /\ STANDARD_META_KEYS = <<>>
    /\ last = NoCall
    /\ coldir = IdleColdir
    /\ conf = IdleConf
    /\ cache = IdleCache
    /\ reader = IdleReader

\* a result is written to the map directory
WriteMapFile ==
    /\ codec = IdleCodec
    /\ \E oname \in CodecNames, ovar \in CodecVars, vc \in CodecVertCodes,
          mname \in CodecNames, mvar \in CodecVars :
        codec' = [t |-> "written",
                  info |-> MapInfo(oname, ovar, vc, mname, mvar, ""),
                  file |-> <<"map", "/">> \o map_file_name(oname, ovar, vc, mname, mvar),
                  out |-> MapInfo(<<>>, <<>>, <<>>, <<>>, <<>>, "")]
    /\ UNCHANGED <<svars, evars, cvars, tvars, ovars, xvars>>

\* the name of the file is parsed
InfoFromMapFile ==
    /\ codec.t = "written"
    /\ codec' = [codec EXCEPT !.t = "parsed",
                              !.out = info_from_map_file(codec.file)]
    /\ UNCHANGED <<svars, evars, cvars, tvars, ovars, xvars>>

NextCodec == WriteMapFile \/ InfoFromMapFile

SpecCodec == InitCodec /\ [][NextCodec]_vars

---------------------------------------------------------------------------
(* Properties of the file name codec (checked under SpecCodec) *)

Parsed == codec.t = "parsed"

NoUnderscore(s) == ~InSeq("_", s)

\* s holds none of the separators of the file name
Plain(s) == ~InSeq("_", s) /\ ~InSeq("-", s) /\ ~InSeq(".json", s)

\* C11 as stated: for every 5-tuple whose obs and model names hold no '_'
\* (they may hold '-'), parsing the name of its map file returns the 5-tuple.
C11_RoundTrip ==
    (/\ Parsed
     /\ NoUnderscore(codec.info.oname) /\ NoUnderscore(codec.info.mname))
    => codec.out = codec.info

\* C11 as amended: the same, for obs and model names that hold neither '_'
\* nor ".json" (they may hold '-') and variables and vertical codes that
\* hold none of '_', '-' and ".json".
C11_RoundTripPlainVars ==
    (/\ Parsed
     /\ NoUnderscore(codec.info.oname) /\ ~InSeq(".json", codec.info.oname)
     /\ NoUnderscore(codec.info.mname) /\ ~InSeq(".json", codec.info.mname)
     /\ Plain(codec.info.ovar) /\ Plain(codec.info.mvar)
     /\ Plain(codec.info.vert_code))
    => codec.out = codec.info

\* a parsed file of a remapped variable whose names hold '-'
C11_Witness ==
    /\ Parsed
    /\ InSeq("-", codec.info.oname) /\ InSeq("-", codec.info.mname)
    /\ Plain(codec.info.ovar) /\ Plain(codec.info.mvar)
    /\ codec.info.ovar # codec.info.mvar
    /\ codec.out = codec.info

---------------------------------------------------------------------------
(* Configuration and output tree of an experiment: the menu rebuild         *)
(* (update_menu) and the cleanup pass (clean_json_files).                   *)
(*                                                                          *)
(* A dict is the sequence of its items in insertion order.  obs_config maps *)
(* an obs name to its obs_vars (a list) and web_interface_name;             *)
(* model_config maps a model name to model_id, model_use_vars (obs var ->   *)
(* model var) and model_add_vars (obs var -> list of model vars).           *)

Item(k, v) == [k |-> k, v |-> v]

Keys(d) == [i \in 1..Len(d) |-> d[i].k]

Values(d) == [i \in 1..Len(d) |-> d[i].v]

KeyIn(k, d) == \E i \in 1..Len(d) : d[i].k = k

Lookup(d, k) == d[CHOOSE i \in 1..Len(d) : d[i].k = k].v

\* l1 + l2 + ... for a list of lists
RECURSIVE Flatten(_)
Flatten(ll) == IF ll = <<>> THEN <<>> ELSE ll[1] \o Flatten(Tail(ll))

ObsCfg(obs_vars, web_interface_name) ==
    [obs_vars |-> obs_vars, web_interface_name |-> web_interface_name]

ModelCfg(model_id, model_use_vars, model_add_vars) ==
    [model_id |-> model_id, model_use_vars |-> model_use_vars,
     model_add_vars |-> model_add_vars]

\* the configuration of an ExperimentSetup that the menu and the cleanup read
Config(obs_config, model_config, valid_obs_vars) ==
    [obs_config |-> obs_config, model_config |-> model_config,
     valid_obs_vars |-> valid_obs_vars]

JSON_SUPPORTED_VERT_SCHEMES == <<<<"Column">>, <<"Surface">>>>

\* outcome of a method: the exception raised ("" for none), the value
\* returned and the configuration the call leaves
Ret(exc, val, c) == [exc |-> exc, val |-> val, c |-> c]

\* all_model_names
all_model_names(c) == Keys(c.model_config)

\* _check_and_get_iface_names: a web_interface_name of None is set to the
\* obs name (in obs_config), a value that is no str raises ValueError
check_and_get_iface_names(c) ==
    LET oc == c.obs_config
        IsBad(i) == oc[i].v.web_interface_name.t \notin {"None", "str"}
        named(stop) ==
            [i \in 1..Len(oc) |->
                IF i < stop /\ oc[i].v.web_interface_name.t = "None"
                THEN Item(oc[i].k, [oc[i].v EXCEPT
                                      !.web_interface_name = PyStr(oc[i].k)])
                ELSE oc[i]]
        result(stop, oc2) ==
            IF stop <= Len(oc)
            THEN Ret("ValueError", <<>>, [c EXCEPT !.obs_config = oc2])
            ELSE Ret("", FirstAppearances([i \in 1..Len(oc2) |->
                                              oc2[i].v.web_interface_name.s]),
                     [c EXCEPT !.obs_config = oc2])
        upto(stop) == result(stop, named(stop)) IN
    upto(IF \E i \in 1..Len(oc) : IsBad(i)
         THEN CHOOSE i \in 1..Len(oc) : IsBad(i) /\ \A j \in 1..(i - 1) : ~IsBad(j)
         ELSE Len(oc) + 1)

\* all_obs_vars: the unique obs variables of all obs entries; np.unique
\* raises when an obs_vars list holds a list next to the names.  (The
\* result is sorted in the source; it is only used for membership.)
all_obs_vars(c) ==
    LET unique(obs_vars) ==
            IF \E i \in 1..Len(obs_vars) : ~IsStr(obs_vars[i])
            THEN Ret("TypeError", <<>>, c)
            ELSE Ret("", FirstAppearances([i \in 1..Len(obs_vars) |->
                                              obs_vars[i].s]), c) IN
    unique(Flatten([i \in 1..Len(c.obs_config) |-> c.obs_config[i].v.obs_vars]))

\* all_model_vars: all_obs_vars, then each model_use_vars value and each
\* element of each model_add_vars value that is not in the list yet
all_model_vars(c) ==
    LET mc == c.model_config
        more == Flatten([i \in 1..Len(mc) |->
                    Values(mc[i].v.model_use_vars)
                    \o Flatten(Values(mc[i].v.model_add_vars))])
        extend(o) == IF o.exc # "" THEN o
                     ELSE Ret("", FirstAppearances(o.val \o more), c) IN
    extend(all_obs_vars(c))

\* all_modelmap_vars
all_modelmap_vars(c) == all_obs_vars(c)

\* the rows of the map files that pass the checks of
\* _get_meta_from_map_files
RECURSIVE meta_rows(_, _, _, _, _)
meta_rows(files, obs_names, obs_vars, mod_names, mod_vars) ==
    LET row(f, rest) ==
            IF \/ ~InSeq(f.mname, mod_names)
               \/ ~InSeq(f.oname, obs_names)
               \/ ~InSeq(f.ovar, obs_vars)
               \/ ~InSeq(f.mvar, mod_vars)
            THEN rest
            ELSE <<f>> \o rest IN
    IF files = <<>> THEN <<>>
    ELSE row(info_from_map_file(files[1]),
             meta_rows(Tail(files), obs_names, obs_vars, mod_names, mod_vars))

\* _get_meta_from_map_files, for the *.json files of the map directory
get_meta_from_map_files(c, files) ==
    LET rows(n, ov, mv) ==
            IF n.exc # "" THEN n
            ELSE IF ov.exc # "" THEN Ret(ov.exc, <<>>, n.c)
            ELSE IF \E i \in 1..Len(files) : info_from_map_file(files[i]).exc # ""
            THEN Ret("FileConventionError", <<>>, n.c)
            ELSE Ret("", meta_rows(files, n.val, ov.val, all_model_names(n.c),
                                   mv.val), n.c)
        checked(n) == rows(n, all_obs_vars(n.c), all_model_vars(n.c)) IN
    IF Len(files) = 0 THEN Ret("", <<>>, c)
    ELSE checked(check_and_get_iface_names(c))

\* a leaf new[var]['obs'][obs_name][obs_var][vert_code][mod_name] of the
\* dict of available results
Leaf(var, obs_name, obs_var, vert_code, mod_name, model_id, model_var) ==
    [var |-> var, obs_name |-> obs_name, obs_var |-> obs_var,
     vert_code |-> vert_code, mod_name |-> mod_name, model_id |-> model_id,
     model_var |-> model_var]

\* _get_available_results_dict: the leaves in the order their rows insert
\* them (the keys of a layer are in order of first appearance)
get_available_results_dict(c, files) ==
    LET leaf(row, mc) ==
            Leaf(IF row.mvar # row.ovar THEN row.mvar \o <<"*">> ELSE row.mvar,
                 row.oname, row.ovar, row.vert_code, row.mname,
                 Lookup(mc, row.mname).model_id, row.mvar)
        leaves(tab) ==
            IF tab.exc # "" THEN tab
            ELSE Ret("", [i \in 1..Len(tab.val) |->
                             leaf(tab.val[i], tab.c.model_config)], tab.c) IN
    leaves(get_meta_from_map_files(c, files))

\* _sort_menu_entries: the first statement reads config.var_order_menu,
\* and no name config is defined in the method or the module
sort_menu_entries(c, avail) == Ret("NameError", <<>>, c)

\* the menu file: not written, or written with the leaves
NoMenu == [written |-> FALSE, leaves |-> <<>>]

\* update_menu: the outcome, the dict of available results built and the
\* menu file after the call
update_menu(c, files, menu_file) ==
    LET written(avail, sorted) ==
            IF sorted.exc # ""
            THEN [exc |-> sorted.exc, c |-> sorted.c, avail |-> avail.val,
                  menu_file |-> menu_file]
            ELSE [exc |-> "", c |-> sorted.c, avail |-> avail.val,
                  menu_file |-> [written |-> TRUE, leaves |-> sorted.val]]
        rebuilt(avail) ==
            IF avail.exc # ""
            THEN [exc |-> avail.exc, c |-> avail.c, avail |-> <<>>,
                  menu_file |-> menu_file]
            ELSE written(avail, sort_menu_entries(avail.c, avail.val)) IN
    rebuilt(get_available_results_dict(c, files))

---------------------------------------------------------------------------
(* The cleanup pass: clean_json_files *)

\* s.replace('.', '_'), for the '.' of the file extension
RECURSIVE replace_dot(_)
replace_dot(s) ==
    IF s = <<>> THEN <<>>
    ELSE (IF s[1] = ".json" THEN <<"_", "json">>
          ELSE IF s[1] = "." THEN <<"_">>
          ELSE <<s[1]>>) \o replace_dot(Tail(s))

\* variant of the loop of _clean_modelmap_files that removes from the
\* listing it iterates over, and so skips the file after a removed one
RECURSIVE clean_modelmap_loop_skip(_, _, _, _)
clean_modelmap_loop_skip(todo, kept, all_vars, all_mods) ==
    IF todo = <<>> THEN [exc |-> "", contour |-> kept]
    ELSE LET spl == split_on(replace_dot(todo[1]), "_") IN
         IF Len(spl) # 4 THEN [exc |-> "ValueError", contour |-> kept \o todo]
         ELSE IF \/ ~InSeq(spl[1], all_vars)
                 \/ ~InSeq(spl[3], all_mods)
                 \/ ~InSeq(spl[2], JSON_SUPPORTED_VERT_SCHEMES)
         THEN IF Len(todo) = 1 THEN [exc |-> "", contour |-> kept]
              ELSE clean_modelmap_loop_skip(Tail(Tail(todo)),
                                            Append(kept, todo[2]),
                                            all_vars, all_mods)
         ELSE clean_modelmap_loop_skip(Tail(todo), Append(kept, todo[1]),
                                       all_vars, all_mods)

\* the loop of _clean_modelmap_files over the listing of the contour
\* directory: todo are the files still to visit, kept the files visited and
\* not removed
RECURSIVE clean_modelmap_loop(_, _, _, _)
clean_modelmap_loop(todo, kept, all_vars, all_mods) ==
    LET visit(spl) ==
            IF Len(spl) # 4 THEN [exc |-> "ValueError", contour |-> kept \o todo]
            ELSE IF \/ ~InSeq(spl[1], all_vars)
                    \/ ~InSeq(spl[3], all_mods)
                    \/ ~InSeq(spl[2], JSON_SUPPORTED_VERT_SCHEMES)
            THEN clean_modelmap_loop(Tail(todo), kept, all_vars, all_mods)
            ELSE clean_modelmap_loop(Tail(todo), Append(kept, todo[1]),
                                     all_vars, all_mods) IN
    IF todo = <<>> THEN [exc |-> "", contour |-> kept]
    ELSE visit(split_on(replace_dot(todo[1]), "_"))

\* _clean_modelmap_files
clean_modelmap_files(c, contour) ==
    LET clean(all_vars) ==
            IF all_vars.exc # "" THEN [exc |-> all_vars.exc, contour |-> contour]
            ELSE clean_modelmap_loop(contour, <<>>, all_vars.val,
                                     all_model_names(c)) IN
    clean(all_modelmap_vars(c))

\* self.all_map_files: ExperimentSetup defines no attribute of that name
\* (it has no base class and no __getattr__)
all_map_files(c, map) == Ret("AttributeError", <<>>, c)

\* the lists model_add_vars gives for the variables in obs_vars, each once
add_vars(c, obs_vars) ==
    LET mc == c.model_config
        hits(d) == SelectSeq(d, LAMBDA it : InSeq(PyStr(it.k), obs_vars)) IN
    FirstAppearances(Flatten([i \in 1..Len(mc) |->
        LET h == hits(mc[i].v.model_add_vars) IN
        [j \in 1..Len(h) |-> PyList(h[j].v)]]))

\* _get_valid_obs_vars(obs_name): the cached list if there is one; else the
\* obs_vars list of the entry, extended in place by the model_add_vars
\* lists, and cached
get_valid_obs_vars(c, obs_name) ==
    LET cached(extended) ==
            Ret("", extended,
                [c EXCEPT !.obs_config =
                              [i \in 1..Len(c.obs_config) |->
                                  IF c.obs_config[i].k = obs_name
                                  THEN Item(obs_name, [c.obs_config[i].v EXCEPT
                                                         !.obs_vars = extended])
                                  ELSE c.obs_config[i]],
                          !.valid_obs_vars = Append(@, Item(obs_name, extended))])
        extend(obs_vars) == cached(obs_vars \o add_vars(c, obs_vars)) IN
    IF KeyIn(obs_name, c.valid_obs_vars)
    THEN Ret("", Lookup(c.valid_obs_vars, obs_name), c)
    ELSE IF ~KeyIn(obs_name, c.obs_config) THEN Ret("KeyError", <<>>, c)
    ELSE extend(Lookup(c.obs_config, obs_name).obs_vars)

\* the loop of clean_json_files over the map files
RECURSIVE clean_map_loop(_, _, _)
clean_map_loop(c, todo, kept) ==
    LET remove(f, known, v, mcfg) ==
            IF ~known THEN TRUE
            ELSE IF ~InSeq(PyStr(f.ovar), v.val) THEN TRUE
            ELSE IF ~InSeq(f.vert_code, JSON_SUPPORTED_VERT_SCHEMES) THEN TRUE
            ELSE /\ KeyIn(f.ovar, mcfg.model_use_vars)
                 /\ f.mvar # Lookup(mcfg.model_use_vars, f.ovar)
        decide(f, n, known, v) ==
            IF f.exc # "" THEN [exc |-> f.exc, c |-> c, map |-> kept \o todo]
            ELSE IF n.exc # "" THEN [exc |-> n.exc, c |-> n.c, map |-> kept \o todo]
            ELSE IF v.exc # "" THEN [exc |-> v.exc, c |-> v.c, map |-> kept \o todo]
            ELSE clean_map_loop(v.c, Tail(todo),
                     IF remove(f, known, v, Lookup(v.c.model_config, f.mname))
                     THEN kept ELSE Append(kept, todo[1]))
        valid(f, n, known) ==
            decide(f, n, known, IF known THEN get_valid_obs_vars(n.c, f.oname)
                                ELSE Ret("", <<>>, n.c))
        visit(f, n) ==
            valid(f, n, InSeq(f.oname, n.val) /\ KeyIn(f.mname, n.c.model_config)) IN
    IF todo = <<>> THEN [exc |-> "", c |-> c, map |-> kept]
    ELSE visit(info_from_map_file(todo[1]), check_and_get_iface_names(c))

\* _check_clean_ts_file(fp): val is the list of the files left of fp (none
\* when it is removed, fp with the configured models when it is rewritten)
check_clean_ts_file(c, fp) ==
    LET configured(mod_name) == KeyIn(mod_name, c.model_config)
        decide(obs_var, known, v) ==
            IF ~known \/ ~InSeq(PyStr(obs_var), v.val) THEN Ret("", <<>>, v.c)
            ELSE IF fp.corrupt THEN Ret("", <<>>, v.c)
            ELSE IF \A i \in 1..Len(fp.models) : configured(fp.models[i])
            THEN Ret("", <<fp>>, v.c)
            ELSE Ret("", <<[fp EXCEPT !.models = SelectSeq(@, configured)]>>, v.c)
        valid(obs_name, obs_var, known) ==
            decide(obs_var, known, IF known THEN get_valid_obs_vars(c, obs_name)
                                   ELSE Ret("", <<>>, c))
        check(obs_name, parts) ==
            IF Len(parts) # 3 THEN Ret("ValueError", <<fp>>, c)
            ELSE valid(obs_name, parts[1],
                       /\ InSeq(parts[2], JSON_SUPPORTED_VERT_SCHEMES)
                       /\ KeyIn(obs_name, c.obs_config))
        named(spl) ==
            IF Len(spl) < 2 THEN Ret("IndexError", <<fp>>, c)
            ELSE check(spl[1], split_on(replace_dot(spl[2]), "_"))
        last_piece(byobs) == named(split_on(byobs[Len(byobs)], ":")) IN
    last_piece(split_on(basename(fp.name), "OBS-"))

\* the loop of clean_json_files over the time series files
RECURSIVE clean_ts_loop(_, _, _)
clean_ts_loop(c, todo, kept) ==
    LET visit(r) ==
            IF r.exc # "" THEN [exc |-> r.exc, c |-> r.c, ts |-> kept \o todo]
            ELSE clean_ts_loop(r.c, Tail(todo), kept \o r.val) IN
    IF todo = <<>> THEN [exc |-> "", c |-> c, ts |-> kept]
    ELSE visit(check_clean_ts_file(c, todo[1]))

\* update_interface: update_menu, and after its return the info table and
\* the heatmap file, which are not part of the tree
update_interface(c, files, menu_file) == update_menu(c, files, menu_file)

\* clean_json_files(update_interface): the exception raised, the dict of
\* available results of the menu rebuild and the tree the call leaves
clean_json_files(tr, update_iface) ==
    LET menu(t3, ui) ==
            [exc |-> ui.exc, avail |-> ui.avail,
             tree |-> [t3 EXCEPT !.c = ui.c, !.menu_file = ui.menu_file]]
        ts_files(t2, tss, t3) ==
            IF tss.exc # "" THEN [exc |-> tss.exc, avail |-> <<>>, tree |-> t3]
            ELSE IF ~update_iface THEN [exc |-> "", avail |-> <<>>, tree |-> t3]
            ELSE menu(t3, update_interface(t3.c, t3.map, t3.menu_file))
        ts_dir(t2, tss) ==
            ts_files(t2, tss, [t2 EXCEPT !.c = tss.c, !.ts = tss.ts])
        map_files(t1, maps, t2) ==
            IF maps.exc # "" THEN [exc |-> maps.exc, avail |-> <<>>, tree |-> t2]
            ELSE ts_dir(t2, clean_ts_loop(t2.c, t2.ts, <<>>))
        map_dir(t1, maps) ==
            map_files(t1, maps, [t1 EXCEPT !.c = maps.c, !.map = maps.map])
        listed(t1, listing) ==
            IF listing.exc # ""
            THEN [exc |-> listing.exc, avail |-> <<>>, tree |-> t1]
            ELSE map_dir(t1, clean_map_loop(listing.c, listing.val, <<>>))
        contour_files(mm, t1) ==
            IF mm.exc # "" THEN [exc |-> mm.exc, avail |-> <<>>, tree |-> t1]
            ELSE listed(t1, all_map_files(t1.c, t1.map))
        contour_dir(mm) == contour_files(mm, [tr EXCEPT !.contour = mm.contour]) IN
    contour_dir(clean_modelmap_files(tr.c, tr.contour))

---------------------------------------------------------------------------
(* Specification SpecMenu: cleanup passes and menu rebuilds on one          *)
(* experiment                                                               *)

MaxMapFiles == 2
MaxContourFiles == 2
MaxTsFiles == 1
MaxOps == 2

od550aer == <<"od550aer">>
od550csaer == <<"od550csaer">>
concno2 == <<"concno2">>

\* the configurations: two obs entries that declare different variables and
\* a model that reads od550csaer for od550aer (model_use_vars); one obs
\* entry with a web interface name and a model that adds od550csaer
\* (model_add_vars); one obs entry and one model
ConfigPool ==
    { Config(<<Item(<<"AERONET">>, ObsCfg(<<PyStr(od550aer)>>, None)),
               Item(<<"EEA">>, ObsCfg(<<PyStr(concno2)>>, None))>>,
             <<Item(<<"TM5">>, ModelCfg(<<"TM5", "-", "met2010">>,
                                        <<Item(od550aer, od550csaer)>>, <<>>)),
               Item(<<"EMEP">>, ModelCfg(<<"EMEP", "-", "rv4">>, <<>>, <<>>))>>,
             <<>>),
      Config(<<Item(<<"AeronetSun">>,
                    ObsCfg(<<PyStr(od550aer)>>, PyStr(<<"AERONET">>)))>>,
             <<Item(<<"TM5">>, ModelCfg(<<"TM5", "-", "met2010">>, <<>>,
                                        <<Item(od550aer, <<od550csaer>>)>>))>>,
             <<>>),
      Config(<<Item(<<"EEA">>, ObsCfg(<<PyStr(concno2), PyStr(od550aer)>>, None))>>,
             <<Item(<<"EMEP">>, ModelCfg(<<"EMEP", "-", "rv4">>, <<>>, <<>>))>>,
             <<>>) }

\* map files of earlier runs: results of configured and of removed models,
\* of both obs entries, with supported and unsupported vertical codes
MapFilePool ==
    << map_file_name(<<"AERONET">>, od550aer, <<"Column">>, <<"TM5">>, od550csaer),
       map_file_name(<<"AERONET">>, od550aer, <<"Column">>, <<"OLD">>, od550aer),
       map_file_name(<<"EEA">>, od550aer, <<"Column">>, <<"TM5">>, od550csaer),
       map_file_name(<<"EEA">>, concno2, <<"Surface">>, <<"EMEP">>, concno2),
       map_file_name(<<"AERONET">>, od550aer, <<"ModelLevel">>, <<"EMEP">>, od550aer),
       map_file_name(<<"AERONET">>, od550aer, <<"Column">>, <<"TM5">>, od550aer) >>

\* model map files <var>_<vert_code>_<model>.json, one of a model whose
\* name holds '_'
ContourFilePool ==
    << od550aer \o <<"_", "Column", "_", "TM5", ".json">>,
       od550aer \o <<"_", "Column", "_", "OLD", ".json">>,
       concno2 \o <<"_", "Surface", "_", "OLD", ".json">>,
       od550aer \o <<"_", "Column", "_", "CAMS", "_", "REAN", ".json">> >>

\* a time series file: its name, the model names its data is keyed by and
\* whether it can be read
TsFile(name, models, corrupt) ==
    [name |-> name, models |-> models, corrupt |-> corrupt]

TsFilePool ==
    << TsFile(<<"Alert", "_", "OBS-", "AERONET", ":", "od550aer", "_", "Column", ".json">>,
              <<<<"TM5">>, <<"OLD">>>>, FALSE),
       TsFile(<<"Ispra", "_", "OBS-", "EEA", ":", "concno2", "_", "Surface", ".json">>,
              <<<<"EMEP">>>>, TRUE) >>

\* the elements of pool at the indices in I, in the order of pool
RECURSIVE Pick(_, _)
Pick(pool, I) ==
    IF pool = <<>> THEN <<>>
    ELSE LET front == Pick(SubSeq(pool, 1, Len(pool) - 1), I) IN
         IF Len(pool) \in I THEN Append(front, pool[Len(pool)]) ELSE front

\* the listings of at most n files of pool
Listings(pool, n) ==
    {Pick(pool, I) : I \in {J \in SUBSET (1..Len(pool)) : Cardinality(J) <= n}}

\* the configuration and the files, as the properties compare them
Snapshot(tr) == [c |-> tr.c, map |-> tr.map, ts |-> tr.ts, contour |-> tr.contour]

\* the record of a call: the method, the exception it raised, the dict of
\* available results it built and the snapshot before the call
Op(op, exc, avail, before) ==
    [op |-> op, exc |-> exc, avail |-> avail, before |-> before]

InitMenu ==
    /\ \E c \in ConfigPool,
          map \in Listings(MapFilePool, MaxMapFiles),
          ts \in Listings(TsFilePool, MaxTsFiles),
          contour \in Listings(ContourFilePool, MaxContourFiles) :
        tree = [t |-> "exp", c |-> c, map |-> map, ts |-> ts,
                contour |-> contour, menu_file |-> NoMenu, ops |-> <<>>]
    /\ setup = IdleSetup
    /\ run = IdleRun
    /\ cfg = IdleCfg
    /\ codec = IdleCodec
    /\ sobs = IdleSobs
    /\ self = IdleSelf
    /\ stations = {}
    /\ STANDARD_META_KEYS = <<>>
    /\ last = NoCall
    /\ coldir = IdleColdir
    /\ conf = IdleConf
    /\ cache = IdleCache
    /\ reader = IdleReader

\* a call of update_menu
UpdateMenu ==
    /\ tree.t = "exp"
    /\ Len(tree.ops) < MaxOps
    /\ \E r \in {update_menu(tree.c, tree.map, tree.menu_file)} :
        tree' = [tree EXCEPT
                   !.c = r.c,
                   !.menu_file = r.menu_file,
                   !.ops = Append(@, Op("update_menu", r.exc, r.avail,
                                        Snapshot(tree)))]
    /\ UNCHANGED <<svars, evars, cvars, kvars, ovars, xvars>>

\* a call of clean_json_files
CleanJsonFiles ==
    /\ tree.t = "exp"
    /\ Len(tree.ops) < MaxOps
    /\ \E update_iface \in BOOLEAN :
        \E r \in {clean_json_files(tree, update_iface)} :
        tree' = [r.tree EXCEPT
                   !.ops = Append(@, Op("clean_json_files", r.exc, r.avail,
                                        Snapshot(tree)))]
    /\ UNCHANGED <<svars, evars, cvars, kvars, ovars, xvars>>

NextMenu == UpdateMenu \/ CleanJsonFiles

SpecMenu == InitMenu /\ [][NextMenu]_vars

---------------------------------------------------------------------------
(* Properties of the menu rebuild and the cleanup (checked under SpecMenu) *)

LastOp == tree.ops[Len(tree.ops)]

Called(op) == tree.ops # <<>> /\ LastOp.op = op

\* the map files of the last call's directory whose model is not configured
RemovedModelFiles ==
    {i \in 1..Len(LastOp.before.map) :
        ~KeyIn(info_from_map_file(LastOp.before.map[i]).mname,
               LastOp.before.c.model_config)}

\* C12: when the map directory holds a result of a model that is not in
\* model_config, update_menu returns without raising and the menu it
\* writes has no entry for that model and keeps the entries of the
\* configured models.
C12_MenuPruning ==
    (Called("update_menu") /\ RemovedModelFiles # {})
    => /\ LastOp.exc = ""
       /\ tree.menu_file.written
       /\ \A i \in 1..Len(tree.menu_file.leaves) :
            KeyIn(tree.menu_file.leaves[i].mod_name, tree.c.model_config)
       /\ \A i \in 1..Len(LastOp.avail) :
            \E j \in 1..Len(tree.menu_file.leaves) :
                tree.menu_file.leaves[j].mod_name = LastOp.avail[i].mod_name

\* the model variable mcfg configures for obs_var: obs_var itself or its
\* model_use_vars entry, or one of its model_add_vars entries
ConfiguredVar(mcfg, obs_var, model_var) ==
    \/ model_var = (IF KeyIn(obs_var, mcfg.model_use_vars)
                    THEN Lookup(mcfg.model_use_vars, obs_var) ELSE obs_var)
    \/ /\ KeyIn(obs_var, mcfg.model_add_vars)
       /\ InSeq(model_var, Lookup(mcfg.model_add_vars, obs_var))

\* leaf names a combination of the configuration c
ConfiguredCombination(c, leaf) ==
    /\ \E i \in 1..Len(c.obs_config) :
         /\ c.obs_config[i].v.web_interface_name = PyStr(leaf.obs_name)
         /\ InSeq(PyStr(leaf.obs_var), c.obs_config[i].v.obs_vars)
    /\ KeyIn(leaf.mod_name, c.model_config)
    /\ ConfiguredVar(Lookup(c.model_config, leaf.mod_name), leaf.obs_var,
                     leaf.model_var)

\* C13: every leaf of the dict of available results built by the menu
\* rebuild names a combination of the configuration: obs_var is declared by
\* the obs entry of that name, the model is configured and model_var is the
\* variable configured for that model and obs_var.
C13_LeavesAreConfigured ==
    Called("update_menu")
    => \A i \in 1..Len(LastOp.avail) :
         ConfiguredCombination(tree.c, LastOp.avail[i])

\* the pieces of the names in ascending order of str comparison
AtomsAscending ==
    <<"*", "AERONET", "EEA", "EMEP", "OLD", "TM5", "concno2", "od550aer",
      "od550csaer">>

AtomRank(a) == CHOOSE i \in 1..Len(AtomsAscending) : AtomsAscending[i] = a

\* a < b for two str
RECURSIVE StrLess(_, _)
StrLess(a, b) ==
    IF b = <<>> THEN FALSE
    ELSE IF a = <<>> THEN TRUE
    ELSE IF a[1] # b[1] THEN AtomRank(a[1]) < AtomRank(b[1])
    ELSE StrLess(Tail(a), Tail(b))

\* sorted(keys)
RECURSIVE sorted_names(_)
sorted_names(keys) ==
    IF keys = <<>> THEN <<>>
    ELSE LET rest == sorted_names(Tail(keys))
             lower == SelectSeq(rest, LAMBDA k : StrLess(k, keys[1]))
             upper == SelectSeq(rest, LAMBDA k : ~StrLess(k, keys[1])) IN
         lower \o <<keys[1]>> \o upper

\* the order of the keys of sort_dict_by_name(d, pref_list): the entries of
\* pref_list that are keys of d, then the other keys in ascending order
sort_dict_by_name(keys, pref_list) ==
    SelectSeq(pref_list, LAMBDA k : InSeq(k, keys))
    \o sorted_names(SelectSeq(keys, LAMBDA k : ~InSeq(k, pref_list)))

\* var_order_menu, obs_order_menu, model_order_menu
var_order_menu(c) == <<>>

obs_order_menu(c) == Keys(c.obs_config)

model_order_menu(c) == Keys(c.model_config)

\* the keys of the variable layer, of the obs layer under a variable and of
\* the model layer under a leaf's vertical code, in the order of the dict
VarLayer(leaves) == FirstAppearances([i \in 1..Len(leaves) |-> leaves[i].var])

ObsLayer(leaves, var) ==
    LET under == SelectSeq(leaves, LAMBDA l : l.var = var) IN
    FirstAppearances([i \in 1..Len(under) |-> under[i].obs_name])

ModelLayer(leaves, leaf) ==
    LET under == SelectSeq(leaves, LAMBDA l :
                     /\ l.var = leaf.var /\ l.obs_name = leaf.obs_name
                     /\ l.obs_var = leaf.obs_var
                     /\ l.vert_code = leaf.vert_code) IN
    FirstAppearances([i \in 1..Len(under) |-> under[i].mod_name])

\* C14: the menu rebuild writes a menu that keeps the leaves of the dict of
\* available results and orders the keys of its variable layer by
\* var_order_menu, of its obs layers by obs_order_menu and of its model
\* layers by model_order_menu: the preference-list entries that occur, in
\* the order of the list, then the remaining keys in ascending order.
C14_MenuOrdered ==
    (Called("update_menu") /\ LastOp.avail # <<>>)
    => LET menu == tree.menu_file.leaves IN
       /\ tree.menu_file.written
       /\ SeqToSet(menu) = SeqToSet(LastOp.avail)
       /\ VarLayer(menu) = sort_dict_by_name(VarLayer(menu), var_order_menu(tree.c))
       /\ \A i \in 1..Len(menu) :
            /\ ObsLayer(menu, menu[i].var)
                 = sort_dict_by_name(ObsLayer(menu, menu[i].var),
                                     obs_order_menu(tree.c))
            /\ ModelLayer(menu, menu[i])
                 = sort_dict_by_name(ModelLayer(menu, menu[i]),
                                     model_order_menu(tree.c))

\* the files of the tree and the contents of obs_config and model_config
TreeAndConfig(snap) ==
    [map |-> snap.map, ts |-> snap.ts, contour |-> snap.contour,
     obs_config |-> snap.c.obs_config, model_config |-> snap.c.model_config]

\* the last two calls were clean_json_files, one right after the other
CleanedTwice ==
    /\ Len(tree.ops) >= 2
    /\ tree.ops[Len(tree.ops)].op = "clean_json_files"
    /\ tree.ops[Len(tree.ops) - 1].op = "clean_json_files"

\* C15: after two calls of clean_json_files in succession, the files of the
\* tree, the contents of the time series files and the contents of
\* obs_config and model_config are what they were after the first call.
C15_CleanIdempotent ==
    CleanedTwice
    => TreeAndConfig(Snapshot(tree)) = TreeAndConfig(LastOp.before)

\* two calls in succession, the first of which removed a file
C15_Witness ==
    /\ CleanedTwice
    /\ TreeAndConfig(LastOp.before)
         # TreeAndConfig(tree.ops[Len(tree.ops) - 1].before)
    /\ TreeAndConfig(Snapshot(tree)) = TreeAndConfig(LastOp.before)

\* the map file is listed by the menu rebuild of the configuration c
Listed(c, files, file) ==
    InSeq(info_from_map_file(file), get_meta_from_map_files(c, files).val)

\* C16: clean_json_files deletes a map file if and only if the menu rebuild
\* (_get_meta_from_map_files) of the same configuration and directory
\* excludes that file from the menu.
C16_SameStalenessCheck ==
    Called("clean_json_files")
    => \A i \in 1..Len(LastOp.before.map) :
         LET file == LastOp.before.map[i] IN
         ~InSeq(file, tree.map)
            <=> ~Listed(LastOp.before.c, LastOp.before.map, file)

---------------------------------------------------------------------------
(* Colocated data files and the super-observation merge.  The colocated     *)
(* data directory is the set of its files; a file is given by the fields    *)
(* of its name (model, obs, variable, ts_type) and its number of stations.  *)

ColFile(model, obs, var, ts_type, nstat) ==
    [model |-> model, obs |-> obs, var |-> var, ts_type |-> ts_type,
     nstat |-> nstat]

\* the resolutions, from the highest to the lowest
TS_TYPES == <<"hourly", "daily", "monthly", "yearly">>

TsRank(ts_type) == CHOOSE i \in 1..Len(TS_TYPES) : TS_TYPES[i] = ts_type

\* get_lowest_resolution(*ts_types)
get_lowest_resolution(ts_types) ==
    CHOOSE t \in SeqToSet(ts_types) :
        \A u \in SeqToSet(ts_types) : TsRank(u) <= TsRank(t)

\* entry of obs_config, as the super-observation processing reads it;
\* obs_vert_type is a str or a dict (variable -> vertical code)
SobsObsCfg(obs_id, obs_vars, obs_vert_type, is_superobs, only_superobs) ==
    [obs_id |-> obs_id, obs_vars |-> obs_vars, obs_vert_type |-> obs_vert_type,
     is_superobs |-> is_superobs, only_superobs |-> only_superobs]

\* get_vert_code(obs_name, obs_var)
get_vert_code(c, obs_name, obs_var) ==
    LET info == Lookup(c.obs_config, obs_name).obs_vert_type IN
    IF IsStr(info) THEN info.s ELSE Lookup(info.d, obs_var)

\* the variable of the model read for var_name (model_use_vars)
use_var(c, model_name, var_name) ==
    LET use == Lookup(c.model_config, model_name).model_use_vars IN
    IF KeyIn(var_name, use) THEN Lookup(use, var_name) ELSE var_name

\* os.listdir(coldata_dir), for a directory given as the set of its files
RECURSIVE ListDir(_)
ListDir(dir) ==
    IF dir = {} THEN <<>>
    ELSE LET first(f) == <<f>> \o ListDir(dir \ {f}) IN
         first(CHOOSE f \in dir : TRUE)

\* the loop of find_coldata_files over the listing (lines 987-1003), var_name
\* a str or None: at every file var_name is rebound to the value
\* model_use_vars gives for it, when it gives one
RECURSIVE find_files_loop(_, _, _, _, _, _)
find_files_loop(c, listing, model_name, obs_name, var_name, files) ==
    LET visit(fname, v) ==
            find_files_loop(c, Tail(listing), model_name, obs_name, v,
                IF /\ fname.obs = obs_name /\ fname.model = model_name
                   /\ (v = None \/ fname.var = v.s)
                THEN Append(files, fname) ELSE files) IN
    IF listing = <<>> THEN files
    ELSE visit(listing[1],
               IF var_name = None THEN None
               ELSE PyStr(use_var(c, model_name, var_name.s)))

\* find_coldata_files(model_name, obs_name, var_name) on the listing of the
\* model's directory: the matching files in the order of the listing; none
\* raises IOError with raise_exceptions and is logged without
find_coldata_files_listed(c, listing, model_name, obs_name, var_name) ==
    LET result(files) ==
            IF files = <<>> /\ c.raise_exceptions
            THEN [exc |-> "IOError", files |-> <<>>]
            ELSE [exc |-> "", files |-> files] IN
    IF ~KeyIn(model_name, c.model_config)
    THEN [exc |-> "KeyError", files |-> <<>>]
    ELSE result(find_files_loop(c, listing, model_name, obs_name, var_name, <<>>))

\* find_coldata_files(model_name, obs_name, var_name) on a directory given
\* as the set of its files: the matching files;
\* none raises IOError with raise_exceptions and is logged without
find_coldata_files(c, dir, model_name, obs_name, var_name) ==
    LET as_set(r) == [exc |-> r.exc, files |-> SeqToSet(r.files)] IN
    as_set(find_coldata_files_listed(c, ListDir(dir), model_name, obs_name,
                                     PyStr(var_name)))

\* self.run_colocation(model_name, obs_name, var_name): ExperimentSetup
\* defines no method of that name
run_colocation(c, dir, model_name, obs_name, var_name) ==
    [exc |-> "AttributeError", dir |-> dir]

\* a call of run_colocation
Colocation(model_name, obs_name, var_name) ==
    [model |-> model_name, obs |-> obs_name, var |-> var_name]

\* variant of the loop over the constituents that colocates a missing
\* constituent whatever try_colocate_if_missing is
RECURSIVE collect_coldata_always_try(_, _, _, _, _, _, _, _)
collect_coldata_always_try(c, dir, model_name, todo, var_name, try_colocate_if_missing, got, calls) ==
    IF todo = <<>> THEN [exc |-> "", files |-> got, calls |-> calls]
    ELSE LET obs_name == todo[1]
             cdf == find_coldata_files(c, dir, model_name, obs_name, var_name)
             call == Append(calls, Colocation(model_name, obs_name, var_name))
             col == run_colocation(c, dir, model_name, obs_name, var_name) IN
         IF c.reanalyse_existing
         THEN [exc |-> col.exc, files |-> got, calls |-> call]
         ELSE IF cdf.exc # ""
         THEN [exc |-> cdf.exc, files |-> got, calls |-> calls]
         ELSE IF cdf.files = {}
         THEN [exc |-> col.exc, files |-> got, calls |-> call]
         ELSE IF Cardinality(cdf.files) # 1
         THEN [exc |-> "ValueError", files |-> got, calls |-> calls]
         ELSE collect_coldata_always_try(c, dir, model_name, Tail(todo),
                  var_name, try_colocate_if_missing,
                  Append(got, Only(cdf.files)), calls)

\* the loop of _run_superobs_entry_var over the constituents todo: got are
\* the files found so far, calls the calls of run_colocation so far
RECURSIVE collect_coldata(_, _, _, _, _, _, _, _)
collect_coldata(c, dir, model_name, todo, var_name, try_colocate_if_missing, got, calls) ==
    LET colocate(col) ==
            [exc |-> col.exc, files |-> got,
             calls |-> Append(calls, Colocation(model_name, todo[1], var_name))]
        found(cdf) ==
            IF cdf.exc # "" THEN [exc |-> cdf.exc, files |-> got, calls |-> calls]
            ELSE IF cdf.files = {} /\ try_colocate_if_missing
            THEN colocate(run_colocation(c, dir, model_name, todo[1], var_name))
            ELSE IF Cardinality(cdf.files) # 1
            THEN [exc |-> "ValueError", files |-> got, calls |-> calls]
            ELSE collect_coldata(c, dir, model_name, Tail(todo), var_name,
                                 try_colocate_if_missing,
                                 Append(got, Only(cdf.files)), calls) IN
    IF todo = <<>> THEN [exc |-> "", files |-> got, calls |-> calls]
    ELSE IF c.reanalyse_existing
    THEN colocate(run_colocation(c, dir, model_name, todo[1], var_name))
    ELSE found(find_coldata_files(c, dir, model_name, todo[1], var_name))

RECURSIVE SumNstat(_)
SumNstat(arrs) == IF arrs = <<>> THEN 0 ELSE arrs[1].nstat + SumNstat(Tail(arrs))

\* the merged artifact passed to compute_json_files_from_colocateddata:
\* parts are the files read, darrs the arrays concatenated
Merged(obs_name, model_name, var_name, vert_code, ts_type, nstat, parts, darrs) ==
    [obs_name |-> obs_name, model_name |-> model_name, var_name |-> var_name,
     vert_code |-> vert_code, ts_type |-> ts_type, nstat |-> nstat,
     parts |-> parts, darrs |-> darrs, diurnal_only |-> FALSE]

\* variant of the merge that concatenates the arrays as they are read
merge_coldata_no_resample(coldata_files, model_name, superobs_name, var_name, vert_code) ==
    LET darrs == [i \in 1..Len(coldata_files) |->
                    [ts_type |-> coldata_files[i].ts_type,
                     nstat |-> coldata_files[i].nstat,
                     data_source |-> <<superobs_name, coldata_files[i].model>>]] IN
    Merged(superobs_name, model_name, var_name, vert_code, darrs[1].ts_type,
           SumNstat(darrs), coldata_files, darrs)

\* the merge of _run_superobs_entry_var: each file is read, resampled to
\* the lowest resolution unless it has it, relabelled, and the arrays are
\* concatenated along station_name (the attributes of the result are those
\* of the first array)
merge_coldata(coldata_files, model_name, superobs_name, var_name, vert_code) ==
    LET to_freq == get_lowest_resolution(
                       [i \in 1..Len(coldata_files) |-> coldata_files[i].ts_type])
        darrs == [i \in 1..Len(coldata_files) |->
                    [ts_type |-> IF coldata_files[i].ts_type # to_freq
                                 THEN to_freq ELSE coldata_files[i].ts_type,
                     nstat |-> coldata_files[i].nstat,
                     data_source |-> <<superobs_name, coldata_files[i].model>>]] IN
    Merged(superobs_name, model_name, var_name, vert_code, darrs[1].ts_type,
           SumNstat(darrs), coldata_files, darrs)

\* _run_superobs_entry_var(model_name, superobs_name, var_name,
\* try_colocate_if_missing): the exception raised, the calls of
\* run_colocation and the merged artifacts passed to the statistics
run_superobs_entry_var(c, dir, model_name, superobs_name, var_name, try_colocate_if_missing) ==
    LET obs_needed == Lookup(c.obs_config, superobs_name).obs_id
        merge(got, vert_codes) ==
            IF got.exc # ""
            THEN [exc |-> got.exc, calls |-> got.calls, merged |-> <<>>]
            ELSE IF obs_needed = <<>>
            THEN [exc |-> "IndexError", calls |-> got.calls, merged |-> <<>>]
            ELSE IF \/ Cardinality(SeqToSet(vert_codes)) > 1
                    \/ vert_codes[1] # get_vert_code(c, superobs_name, var_name)
            THEN [exc |-> "ValueError", calls |-> got.calls, merged |-> <<>>]
            ELSE [exc |-> "", calls |-> got.calls,
                  merged |-> <<merge_coldata(got.files, model_name, superobs_name,
                                             var_name, vert_codes[1])>>] IN
    merge(collect_coldata(c, dir, model_name, obs_needed, var_name,
                          try_colocate_if_missing, <<>>, <<>>),
          [i \in 1..Len(obs_needed) |-> get_vert_code(c, obs_needed[i], var_name)])

\* the loop of _run_superobs_entry over the variables todo: an exception
\* of a variable is raised with raise_exceptions and logged without
RECURSIVE superobs_vars_loop(_, _, _, _, _, _, _)
superobs_vars_loop(c, dir, model_name, superobs_name, todo, try_colocate_if_missing, acc) ==
    LET step(r, next) ==
            IF r.exc # "" /\ c.raise_exceptions
            THEN [next EXCEPT !.exc = r.exc]
            ELSE superobs_vars_loop(c, dir, model_name, superobs_name, Tail(todo),
                     try_colocate_if_missing,
                     IF r.exc # ""
                     THEN [next EXCEPT !.warned = Append(@, [var |-> todo[1],
                                                             exc |-> r.exc])]
                     ELSE next)
        one_var(r) == step(r, [acc EXCEPT !.calls = @ \o r.calls,
                                          !.merged = @ \o r.merged]) IN
    IF todo = <<>> THEN acc
    ELSE one_var(run_superobs_entry_var(c, dir, model_name, superobs_name,
                                        todo[1], try_colocate_if_missing))

\* what a call did: the exception raised, the failures logged, the calls
\* of run_colocation or Colocator.run that computed a colocation, the
\* files written to the colocated data directory and the merged artifacts
\* passed to the statistics
NoneDone == [exc |-> "", warned |-> <<>>, calls |-> <<>>, writes |-> <<>>,
             merged |-> <<>>]

\* _run_superobs_entry(model_name, superobs_name, var_name,
\* try_colocate_if_missing)
run_superobs_entry_disk(c, dir, model_name, superobs_name, var_name, try_colocate_if_missing) ==
    IF ~KeyIn(superobs_name, c.obs_config)
    THEN [NoneDone EXCEPT !.exc = "AttributeError"]
    ELSE IF ~Lookup(c.obs_config, superobs_name).is_superobs
    THEN [NoneDone EXCEPT !.exc = "ValueError"]
    ELSE superobs_vars_loop(c, dir, model_name, superobs_name,
             process_vars(Lookup(c.obs_config, superobs_name).obs_vars, var_name),
             try_colocate_if_missing, NoneDone)

\* the Colocator of init_colocator ignores the reanalyse_existing setting
init_colocator_reanalyse(c, model_name, obs_name) ==
    IF ~KeyIn(model_name, c.model_config) \/ ~KeyIn(obs_name, c.obs_config)
    THEN [exc |-> "KeyError"]
    ELSE [exc |-> "", reanalyse_existing |-> TRUE,
          raise_exceptions |-> c.raise_exceptions, ts_type |-> c.ts_type,
          obs_vars |-> Lookup(c.obs_config, obs_name).obs_vars,
          model_use_vars |-> Lookup(c.model_config, model_name).model_use_vars,
          model_name |-> model_name, obs_name |-> obs_name]

\* init_colocator(model_name, obs_name): a Colocator with the colocation
\* settings, updated with the obs entry and the model entry
init_colocator(c, model_name, obs_name) ==
    IF ~KeyIn(model_name, c.model_config) \/ ~KeyIn(obs_name, c.obs_config)
    THEN [exc |-> "KeyError"]
    ELSE [exc |-> "", reanalyse_existing |-> c.reanalyse_existing,
          raise_exceptions |-> c.raise_exceptions, ts_type |-> c.ts_type,
          obs_vars |-> Lookup(c.obs_config, obs_name).obs_vars,
          model_use_vars |-> Lookup(c.model_config, model_name).model_use_vars,
          model_name |-> model_name, obs_name |-> obs_name]

\* Colocator.run(var_name) on the directory dir, for the variables todo: a
\* variable whose file exists is reused unless reanalyse_existing is set;
\* else it is colocated and its file written, or, when the obs data cannot
\* be read, the failure raised (raise_exceptions) or logged
RECURSIVE Colocator_run_disk(_, _, _, _, _)
Colocator_run_disk(col, env, dir, todo, acc) ==
    IF todo = <<>> THEN [done |-> acc, dir |-> dir]
    ELSE LET var == IF KeyIn(todo[1], col.model_use_vars)
                    THEN Lookup(col.model_use_vars, todo[1]) ELSE todo[1]
             same == {f \in dir : /\ f.model = col.model_name
                                  /\ f.obs = col.obs_name /\ f.var = var
                                  /\ f.ts_type = col.ts_type}
             file == ColFile(col.model_name, col.obs_name, var, col.ts_type,
                             env.nstat)
             call == [acc EXCEPT !.calls = Append(@, Colocation(col.model_name,
                                                       col.obs_name, todo[1]))] IN
         IF same # {} /\ ~col.reanalyse_existing
         THEN Colocator_run_disk(col, env, dir, Tail(todo), acc)
         ELSE IF col.obs_name \in env.nodata
         THEN IF col.raise_exceptions
              THEN [done |-> [call EXCEPT !.exc = "ColocationError"], dir |-> dir]
              ELSE Colocator_run_disk(col, env, dir, Tail(todo),
                       [call EXCEPT !.warned = Append(@, [var |-> todo[1],
                                                   exc |-> "ColocationError"])])
         ELSE Colocator_run_disk(col, env, (dir \ same) \cup {file}, Tail(todo),
                  [call EXCEPT !.writes = Append(@, file)])

\* _run_single_entry(model_name, obs_name, var_name) on the directory dir
\* (make_json_files reads the colocated files and writes json files only)
run_single_entry_disk(c, env, dir, model_name, obs_name, var_name) ==
    LET ocfg == Lookup(c.obs_config, obs_name)
        superobs(s) ==
            [done |-> IF s.exc # "" /\ ~c.raise_exceptions
                      THEN [s EXCEPT !.exc = "",
                                     !.warned = Append(@, [var |-> "", exc |-> s.exc])]
                      ELSE s,
             dir |-> dir]
        regular(col) ==
            IF col.exc # ""
            THEN [done |-> [NoneDone EXCEPT !.exc = col.exc], dir |-> dir]
            ELSE Colocator_run_disk(col, env, dir,
                                    process_vars(col.obs_vars, var_name), NoneDone) IN
    IF model_name = obs_name THEN [done |-> NoneDone, dir |-> dir]
    ELSE IF ocfg.is_superobs
    THEN superobs(run_superobs_entry_disk(c, dir, model_name, obs_name, var_name,
                                          TRUE))
    ELSE IF ocfg.only_superobs THEN [done |-> NoneDone, dir |-> dir]
    ELSE regular(init_colocator(c, model_name, obs_name))

\* the pairs of the loops of run_evaluation, in the order they are run
Pairs(obs_list, model_list) ==
    [k \in 1..(Len(obs_list) * Len(model_list)) |->
        [obs_name |-> obs_list[((k - 1) \div Len(model_list)) + 1],
         model_name |-> model_list[((k - 1) % Len(model_list)) + 1]]]

\* the loops of run_evaluation over the pairs todo
RECURSIVE entries_loop(_, _, _, _, _, _)
entries_loop(c, env, dir, todo, var_name, acc) ==
    LET step(r, next) ==
            IF r.done.exc # "" THEN [done |-> next, dir |-> r.dir]
            ELSE entries_loop(c, env, r.dir, Tail(todo), var_name, next)
        entry(r) == step(r, [exc |-> r.done.exc,
                             warned |-> acc.warned \o r.done.warned,
                             calls |-> acc.calls \o r.done.calls,
                             writes |-> acc.writes \o r.done.writes,
                             merged |-> acc.merged \o r.done.merged]) IN
    IF todo = <<>> THEN [done |-> acc, dir |-> dir]
    ELSE entry(run_single_entry_disk(c, env, dir, todo[1].model_name,
                                     todo[1].obs_name, var_name))

\* run_evaluation(var_name=None, update_interface): clean_json_files, which
\* ends in an exception, when clear_existing_json is set; the entries; then
\* update_interface, which ends in NameError
run_evaluation_disk(c, env, dir, update_iface) ==
    LET finish(r) == IF r.done.exc = "" /\ update_iface
                     THEN [r EXCEPT !.done.exc = "NameError"]
                     ELSE r IN
    IF c.clear_existing_json
    THEN [done |-> [NoneDone EXCEPT !.exc = "AttributeError"], dir |-> dir]
    ELSE finish(entries_loop(c, env, dir,
                             Pairs(Keys(c.obs_config), Keys(c.model_config)),
                             None, NoneDone))

---------------------------------------------------------------------------
(* Specification SpecSobs: evaluation runs and super-observation entries    *)
(* on one colocated data directory                                          *)

MaxColFiles == 3
MaxRuns == 2

Surface == PyStr("Surface")

\* obs_vert_type of the entries A, B and S: all Surface; B Column; S a dict
\* that gives Column for ang4487aer
VertTypePool ==
    { <<Surface, Surface, Surface>>,
      <<Surface, PyStr("Column"), Surface>>,
      <<Surface, Surface,
        [t |-> "dict", d |-> <<Item("od550aer", "Surface"),
                                Item("ang4487aer", "Column")>>]>> }

\* A is a regular entry, B is used in the super-observation only, S is the
\* super-observation of A and B
SobsConfig(reanalyse_existing, raise_exceptions, clear_existing_json, vert) ==
    [reanalyse_existing |-> reanalyse_existing,
     raise_exceptions |-> raise_exceptions,
     clear_existing_json |-> clear_existing_json,
     ts_type |-> "daily",
     obs_config |->
        <<Item("A", SobsObsCfg(<<"A">>, EVAL_VARS, vert[1], FALSE, FALSE)),
          Item("B", SobsObsCfg(<<"B">>, EVAL_VARS, vert[2], FALSE, TRUE)),
          Item("S", SobsObsCfg(<<"A", "B">>, EVAL_VARS, vert[3], TRUE, FALSE))>>,
     model_config |-> <<Item("M", ModelCfg("M", <<>>, <<>>))>>]

SobsConfigPool ==
    {SobsConfig(re, ra, cl, vert) :
        re \in BOOLEAN, ra \in BOOLEAN, cl \in BOOLEAN, vert \in VertTypePool}

\* colocated files of earlier runs
ColFilePool ==
    { ColFile("M", "A", "od550aer", "hourly", 2),
      ColFile("M", "A", "od550aer", "daily", 2),
      ColFile("M", "B", "od550aer", "daily", 3),
      ColFile("M", "B", "od550aer", "monthly", 1),
      ColFile("M", "A", "ang4487aer", "daily", 2),
      ColFile("M", "B", "ang4487aer", "hourly", 1) }

\* what Colocator.run finds: the obs networks whose data cannot be read and
\* the number of stations of a colocation
EnvPool == {[nodata |-> {}, nstat |-> 2], [nodata |-> {"A"}, nstat |-> 2]}

SobsOp(op, try_colocate_if_missing, done, before) ==
    [op |-> op, try_colocate_if_missing |-> try_colocate_if_missing,
     done |-> done, before |-> before]

InitSobs ==
    /\ \E c \in SobsConfigPool, env \in EnvPool,
          dir \in {d \in SUBSET ColFilePool : Cardinality(d) <= MaxColFiles} :
        sobs = [t |-> "exp", c |-> c, env |-> env, dir |-> dir, ops |-> <<>>]
    /\ setup = IdleSetup
    /\ run = IdleRun
    /\ cfg = IdleCfg
    /\ codec = IdleCodec
    /\ tree = IdleTree
    /\ self = IdleSelf
    /\ stations = {}
    /\ STANDARD_META_KEYS = <<>>
    /\ last = NoCall
    /\ coldir = IdleColdir
    /\ conf = IdleConf
    /\ cache = IdleCache
    /\ reader = IdleReader

\* a call of run_evaluation
RunEvaluationDisk ==
    /\ sobs.t = "exp"
    /\ Len(sobs.ops) < MaxRuns
    /\ \E update_iface \in BOOLEAN :
        \E r \in {run_evaluation_disk(sobs.c, sobs.env, sobs.dir, update_iface)} :
        sobs' = [sobs EXCEPT
                   !.dir = r.dir,
                   !.ops = Append(@, SobsOp("run_evaluation", TRUE, r.done,
                                            sobs.dir))]
    /\ UNCHANGED <<svars, evars, cvars, kvars, tvars, xvars>>

\* a call of _run_superobs_entry for the model M and the entry S
RunSuperobsEntry ==
    /\ sobs.t = "exp"
    /\ Len(sobs.ops) < MaxRuns
    /\ \E try_colocate_if_missing \in BOOLEAN :
        \E r \in {run_superobs_entry_disk(sobs.c, sobs.dir, "M", "S", None,
                                          try_colocate_if_missing)} :
        sobs' = [sobs EXCEPT
                   !.ops = Append(@, SobsOp("_run_superobs_entry",
                                            try_colocate_if_missing, r,
                                            sobs.dir))]
    /\ UNCHANGED <<svars, evars, cvars, kvars, tvars, xvars>>

NextSobs == RunEvaluationDisk \/ RunSuperobsEntry

SpecSobs == InitSobs /\ [][NextSobs]_vars

---------------------------------------------------------------------------
(* Properties of the colocated data directory and the super-observation     *)
(* merge (checked under SpecSobs)                                           *)

LastRun == sobs.ops[Len(sobs.ops)]

\* the file a colocation writes exists in dir
ArtifactExists(dir, call) ==
    \E f \in dir : /\ f.model = call.model /\ f.obs = call.obs
                   /\ f.var = call.var /\ f.ts_type = sobs.c.ts_type

\* C17: when run_evaluation is run twice in succession with
\* reanalyse_existing=False, the second run writes no file to the colocated
\* data directory and leaves it as it was, and runs no colocation for a
\* (model, obs, var) whose file exists, the constituents of the
\* super-observation included.
C17_SecondRunWritesNothing ==
    (/\ Len(sobs.ops) >= 2
     /\ LastRun.op = "run_evaluation"
     /\ sobs.ops[Len(sobs.ops) - 1].op = "run_evaluation"
     /\ ~sobs.c.reanalyse_existing)
    => /\ LastRun.done.writes = <<>>
       /\ sobs.dir = LastRun.before
       /\ \A i \in 1..Len(LastRun.done.calls) :
            ~ArtifactExists(LastRun.before, LastRun.done.calls[i])

\* two runs in succession, the first of which wrote files
C17_Witness ==
    /\ Len(sobs.ops) >= 2
    /\ LastRun.op = "run_evaluation"
    /\ sobs.ops[Len(sobs.ops) - 1].op = "run_evaluation"
    /\ ~sobs.c.reanalyse_existing
    /\ sobs.ops[Len(sobs.ops) - 1].done.writes # <<>>
    /\ LastRun.done.writes = <<>>
    /\ sobs.dir = LastRun.before

Finer(t, u) == TsRank(t) < TsRank(u)

\* the merged artifact m has the lowest resolution of its parts, each part
\* at a higher resolution is resampled to it and each other part is left
\* as it is, and m has the stations of all parts
MergedAtCoarsest(m) ==
    /\ \E i \in 1..Len(m.parts) : m.parts[i].ts_type = m.ts_type
    /\ \A i \in 1..Len(m.parts) :
         /\ ~Finer(m.ts_type, m.parts[i].ts_type)
         /\ m.darrs[i].ts_type = m.ts_type
         /\ ~Finer(m.darrs[i].ts_type, m.parts[i].ts_type)
    /\ m.nstat = SumNstat(m.parts)

\* C18: every merged artifact of a super-observation has the coarsest
\* ts_type of its constituents (finer constituents are resampled down to
\* it, none is upsampled, those at that resolution are left as they are)
\* and its station count is the sum of the constituents' station counts.
C18_MergedAtCoarsest ==
    \A k \in 1..Len(sobs.ops) :
        \A i \in 1..Len(sobs.ops[k].done.merged) :
            MergedAtCoarsest(sobs.ops[k].done.merged[i])

\* an hourly and a daily constituent merged to a daily artifact with the
\* stations of both
C18_Witness ==
    /\ sobs.ops # <<>>
    /\ \E i \in 1..Len(LastRun.done.merged) :
        LET m == LastRun.done.merged[i] IN
        /\ Len(m.parts) = 2
        /\ m.parts[1].ts_type = "hourly" /\ m.parts[2].ts_type = "daily"
        /\ m.ts_type = "daily" /\ m.darrs[1].ts_type = "daily"
        /\ m.nstat = m.parts[1].nstat + m.parts[2].nstat

\* the constituents of S with other than one file of var in dir
Unresolved(dir, var) ==
    {o \in SeqToSet(Lookup(sobs.c.obs_config, "S").obs_id) :
        Cardinality({f \in dir : f.model = "M" /\ f.obs = o /\ f.var = var}) # 1}

MissingOf(dir, var) ==
    {o \in SeqToSet(Lookup(sobs.c.obs_config, "S").obs_id) :
        {f \in dir : f.model = "M" /\ f.obs = o /\ f.var = var} = {}}

CallsFor(done, obs_name, var) ==
    {i \in 1..Len(done.calls) : done.calls[i].obs = obs_name /\ done.calls[i].var = var}

MergedFor(done, var) ==
    {i \in 1..Len(done.merged) : done.merged[i].var_name = var}

\* the last call was _run_superobs_entry with try_colocate_if_missing=False
EntryWithoutTry ==
    /\ sobs.ops # <<>>
    /\ LastRun.op = "_run_superobs_entry"
    /\ ~LastRun.try_colocate_if_missing

\* C19 as stated: processing S with try_colocate_if_missing=False when B
\* has no colocated file raises an error and never calls the colocation of
\* B; a constituent with no or several files is a fatal error and no merged
\* artifact reaches the statistics.
C19_MissingConstituentRaises ==
    EntryWithoutTry
    => \A var \in SeqToSet(EVAL_VARS) :
         /\ "B" \in MissingOf(LastRun.before, var)
              => /\ LastRun.done.exc # ""
                 /\ CallsFor(LastRun.done, "B", var) = {}
         /\ Unresolved(LastRun.before, var) # {}
              => /\ LastRun.done.exc # ""
                 /\ LastRun.done.merged = <<>>

\* C19 as amended: with reanalyse_existing=False and
\* try_colocate_if_missing=False a constituent with no file is never
\* colocated, and a variable with a constituent that has no or several
\* files gives no merged artifact: the failure is raised when
\* raise_exceptions is set (and ends the entry) and is logged for that
\* variable when it is not.
C19_MissingConstituentFails ==
    (EntryWithoutTry /\ ~sobs.c.reanalyse_existing)
    => \A var \in SeqToSet(EVAL_VARS) :
         /\ \A o \in MissingOf(LastRun.before, var) :
              CallsFor(LastRun.done, o, var) = {}
         /\ Unresolved(LastRun.before, var) # {}
              => /\ MergedFor(LastRun.done, var) = {}
                 /\ sobs.c.raise_exceptions
                      => LastRun.done.exc \in {"IOError", "ValueError"}
                 /\ ~sobs.c.raise_exceptions
                      => /\ LastRun.done.exc = ""
                         /\ \E i \in 1..Len(LastRun.done.warned) :
                              LastRun.done.warned[i].var = var

\* B has no file of od550aer, A has one: with raise_exceptions the entry
\* ends in IOError, without colocating B
C19_Witness ==
    /\ EntryWithoutTry /\ ~sobs.c.reanalyse_existing /\ sobs.c.raise_exceptions
    /\ MissingOf(LastRun.before, "od550aer") = {"B"}
    /\ Unresolved(LastRun.before, "od550aer") = {"B"}
    /\ LastRun.done.exc = "IOError"
    /\ LastRun.done.calls = <<>>
    /\ LastRun.done.merged = <<>>

\* the constituents of S, or S and its constituents, disagree on the
\* vertical code of var
VertCodesDisagree(var) ==
    \E o \in SeqToSet(Lookup(sobs.c.obs_config, "S").obs_id) :
        get_vert_code(sobs.c, o, var) # get_vert_code(sobs.c, "S", var)

\* C20: when the vertical codes of a variable disagree (and each
\* constituent has its one colocated file, so that the codes are
\* compared), run_evaluation raises an error whatever raise_exceptions is,
\* the failure is not logged and skipped, and no merged artifact of that
\* variable is passed to the statistics.
C20_VertCodeMismatchFatal ==
    (sobs.ops # <<>> /\ LastRun.op = "run_evaluation"
       /\ ~sobs.c.clear_existing_json /\ ~sobs.c.reanalyse_existing)
    => \A var \in SeqToSet(EVAL_VARS) :
         (VertCodesDisagree(var) /\ Unresolved(sobs.dir, var) = {})
           => /\ LastRun.done.exc # ""
              /\ MergedFor(LastRun.done, var) = {}
              /\ ~\E i \in 1..Len(LastRun.done.warned) :
                    LastRun.done.warned[i].var = var

---------------------------------------------------------------------------
(* The combinations a run processes (checked under SpecEval) *)

\* the variables an entry colocated (regular) or merged (super-observation)
ProcessedVars(e) == IF e.route = "superobs" THEN e.merged ELSE e.files

\* the combinations (model, obs, var) the run has processed so far
ProcessedCombinations ==
    UNION {{<<e.model_name, e.obs_name, v>> : v \in SeqToSet(ProcessedVars(e))} :
           e \in Entries}

\* no (model, obs) pair was handled twice and no variable twice in a pair
EachOnce ==
    /\ \A k, l \in 1..Len(run.entries) :
          /\ run.entries[k].model_name = run.entries[l].model_name
          /\ run.entries[k].obs_name = run.entries[l].obs_name
          => k = l
    /\ \A e \in Entries :
          Cardinality(SeqToSet(ProcessedVars(e))) = Len(ProcessedVars(e))

\* {(m, o, v) : m a key of model_config, o a key of obs_config, v in the
\* obs_vars declared for o}
AllCombinations ==
    {<<m, o, v>> : m \in SeqToSet(setup.model_list),
                   o \in SeqToSet(setup.obs_list), v \in SeqToSet(EVAL_VARS)}

\* the combinations of AllCombinations whose obs entry is not marked
\* only_superobs and is not named like the model
EligibleCombinations ==
    {c \in AllCombinations : /\ c[1] # c[2]
                             /\ ~setup.obs_config[c[2]].only_superobs
                             /\ InSeq(c[3], setup.obs_config[c[2]].obs_vars)}

\* the loops of run_evaluation have ended
LoopsEnded == run.pc = "update"

---------------------------------------------------------------------------
(* Frame of the metadata merge (checked under Spec) *)

\* a coordinate that is missing in sd and present in other
MissingCoord(sd, other, key) ==
    /\ IsCoordKey(key) /\ sd.meta[key] = None /\ other.meta[key] # None

\* C24: merge_meta_same_station(other, inplace=False) returns a new
\* StationData that holds the merged metadata, the coordinates that were
\* missing in self and present in other included, and leaves every metadata
\* field of self as it was; with inplace=True the merged metadata is stored
\* in self and self is returned.
C24_InplaceFrame ==
    (last.op = "merge_meta_same_station" /\ last.exc = "") =>
        IF last.args.inplace
        THEN last.ret = self
        ELSE /\ self.meta = last.pre.meta
             /\ \A key \in SeqToSet(STANDARD_COORD_KEYS) :
                    MissingCoord(last.pre, last.other, key) =>
                        last.ret.meta[key] = last.other.meta[key]

\* C29: the additional metadata keys passed to merge_meta_same_station or
\* merge_other (add_meta_keys) affect only that call: the class-level list
\* STANDARD_META_KEYS is the same after a merge call as before it, so a later
\* merge without add_meta_keys merges the standard metadata keys only.
C29_StandardKeysUnchanged ==
    last.op # "" =>
        /\ STANDARD_META_KEYS = last.prekeys
        /\ "PI" \notin SeqToSet(STANDARD_META_KEYS)

----------------------------------------------------------------------------
(* find_coldata_files on the listing of a model's directory of colocated
   data files *)

\* the number of files in the listing of the directory
MaxListing == 3

\* model_use_vars of the model "M": none, one translation, and a chain in
\* which the translated name is translated again
UseVarsPool ==
    { <<>>,
      <<Item("od550aer", "od550csaer")>>,
      <<Item("od550aer", "od550csaer"), Item("od550csaer", "od550gt1aer")>> }

\* the setup find_coldata_files reads: colocation_settings['raise_exceptions']
\* and model_config
FindConfig(raise_exceptions, model_use_vars) ==
    [raise_exceptions |-> raise_exceptions,
     model_config |-> <<Item("M", ModelCfg("M", model_use_vars, <<>>))>>]

\* files a directory of colocated data can hold, by the metadata of their names
FindFilePool ==
    { ColFile("M", "A", "od550aer", "daily", 1),
      ColFile("M", "A", "od550csaer", "daily", 1),
      ColFile("M", "A", "od550gt1aer", "daily", 1),
      ColFile("M", "B", "od550csaer", "daily", 1),
      ColFile("N", "A", "od550csaer", "daily", 1) }

\* the listings os.listdir can give: no file twice, any order
ListingPool ==
    UNION {{l \in [1..n -> FindFilePool] :
                \A i, j \in 1..n : l[i] = l[j] => i = j} : n \in 0..MaxListing}

NoFind == [model_name |-> ""]

InitFind ==
    /\ \E ra \in BOOLEAN, use \in UseVarsPool, listing \in ListingPool :
        coldir = [t |-> "dir", c |-> FindConfig(ra, use), listing |-> listing,
                  call |-> NoFind]
    /\ sobs = IdleSobs
    /\ setup = IdleSetup
    /\ run = IdleRun
    /\ cfg = IdleCfg
    /\ codec = IdleCodec
    /\ tree = IdleTree
    /\ self = IdleSelf
    /\ stations = {}
    /\ STANDARD_META_KEYS = <<>>
    /\ last = NoCall
    /\ conf = IdleConf
    /\ cache = IdleCache
    /\ reader = IdleReader

\* a call of find_coldata_files(model_name, obs_name, var_name)
FindColdataFiles ==
    /\ coldir.t = "dir"
    /\ \E obs_name \in {"A", "B"},
          var_name \in {None, PyStr("od550aer"), PyStr("od550csaer")} :
        LET returned(r) ==
                coldir' = [coldir EXCEPT !.call =
                    [model_name |-> "M", obs_name |-> obs_name,
                     var_name |-> var_name, exc |-> r.exc, files |-> r.files]] IN
        returned(find_coldata_files_listed(coldir.c, coldir.listing, "M",
                                           obs_name, var_name))
    /\ UNCHANGED <<svars, evars, cvars, kvars, tvars, ovars, uvars, dvars, rvars>>

NextFind == FindColdataFiles

SpecFind == InitFind /\ [][NextFind]_vars

\* the file matches the call: data_source is (obs_name, model_name) and, with
\* a var_name given, its variable is the model variable for var_name
MatchesCall(f, call, c) ==
    /\ f.obs = call.obs_name
    /\ f.model = call.model_name
    /\ (call.var_name # None =>
            f.var = use_var(c, call.model_name, call.var_name.s))

MatchingFiles == SelectSeq(coldir.listing, LAMBDA f : MatchesCall(f, coldir.call, coldir.c))

\* C25: find_coldata_files returns exactly the files of the directory whose
\* data_source is (obs_name, model_name) and whose variable is the model
\* variable for var_name, translated once; it raises only when there is no
\* such file
C25_ExactlyMatchingFiles ==
    coldir.call # NoFind =>
        IF coldir.call.exc = ""
        THEN coldir.call.files = MatchingFiles
        ELSE MatchingFiles = <<>>

\* without a translation of the translated name the call returns the
\* matching files
C25_NoChainExact ==
    (coldir.call # NoFind /\ Len(coldir.c.model_config[1].v.model_use_vars) < 2) =>
        IF coldir.call.exc = ""
        THEN coldir.call.files = MatchingFiles
        ELSE MatchingFiles = <<>>

----------------------------------------------------------------------------
(* ExperimentSetup as a configuration object: the attributes of __dict__ in
   the order of their insertion, the controlled setter, the conversion to a
   json document and back, and the main frequency of the statistics stage *)

\* a dict, or an instance cls of a subclass of dict, with str keys
Dict(cls, d) == [t |-> "dict", cls |-> cls, d |-> d]

EmptyMap == [k \in {} |-> None]

\* isinstance(val, dict)
IsDict(val) == val.t = "dict"

\* d[key] = val
Put(d, key, val) ==
    [k \in DOMAIN d \cup {key} |-> IF k = key THEN val ELSE d[k]]

\* d.update(**other)
Upd(d, other) ==
    [k \in DOMAIN d \cup DOMAIN other |-> IF k \in DOMAIN other THEN other[k] ELSE d[k]]

\* const.print_log
Logger == [t |-> "Logger"]

JSON_CFG_IGNORE == {"add_methods", "_log", "out_dirs"}

FORBIDDEN_ATTRS == {"basedir_coldata"}

DEFAULTS == [statistics_freqs |-> PyList(<<"monthly", "yearly">>),
             regrid_res_deg |-> PyNum(5)]

\* ColocationSetup(**opts): the options of the colocation with their defaults
ColocationSetup(opts) ==
    Dict("ColocationSetup",
         Upd([raise_exceptions |-> PyBool(FALSE),
              reanalyse_existing |-> PyBool(FALSE),
              save_coldata |-> PyBool(FALSE),
              regrid_res_deg |-> None,
              start |-> None], opts))

\* ObsConfigEval(**val)
ObsConfigEval(val) ==
    Dict("ObsConfigEval",
         Upd([obs_ts_type_read |-> None, is_superobs |-> PyBool(FALSE),
              only_superobs |-> PyBool(FALSE)], val.d))

\* ModelConfigEval(**val)
ModelConfigEval(val) ==
    Dict("ModelConfigEval",
         Upd([model_ts_type_read |-> None,
              model_use_vars |-> Dict("dict", EmptyMap),
              model_add_vars |-> Dict("dict", EmptyMap),
              model_read_aux |-> Dict("dict", EmptyMap)], val.d))

\* _check_type_cfg_entry(val, cls) for cls = ModelConfigEval
check_type_cfg_entry(val) ==
    IF val.cls = "ModelConfigEval" THEN val ELSE ModelConfigEval(val)

\* self.<key> = val, a new attribute coming last in __dict__
PutAttr(stp, key, val) ==
    [d |-> Put(stp.d, key, val),
     order |-> IF key \in DOMAIN stp.d THEN stp.order ELSE Append(stp.order, key)]

\* the attributes __init__ sets, in its order (those the setter, the
\* conversion to json and the statistics stage read)
InitOrder ==
    <<"_log", "statistics_freqs", "main_freq", "_out_dirs",
      "colocation_settings", "add_methods", "obs_config", "model_config">>

\* __dict__ after ExperimentSetup(proj_id, exp_id)
NewSetup ==
    [d |-> ("_log" :> Logger)
           @@ ("statistics_freqs" :> DEFAULTS.statistics_freqs)
           @@ ("main_freq" :> None)
           @@ ("_out_dirs" :> Dict("dict", EmptyMap))
           @@ ("colocation_settings" :>
                   ColocationSetup([save_coldata |-> PyBool(TRUE),
                                    keep_data |-> PyBool(FALSE),
                                    regrid_res_deg |-> DEFAULTS.regrid_res_deg]))
           @@ ("add_methods" :> Dict("dict", EmptyMap))
           @@ ("obs_config" :> Dict("dict", EmptyMap))
           @@ ("model_config" :> Dict("dict", EmptyMap)),
     order |-> InitOrder]

\* _set_obsconfig(val)
set_obsconfig(stp, val) ==
    PutAttr(stp, "obs_config",
            Dict("dict", [k \in DOMAIN val.d |-> ObsConfigEval(val.d[k])]))

\* _set_modelconfig(val)
set_modelconfig(stp, val) ==
    PutAttr(stp, "model_config",
            Dict("dict", [k \in DOMAIN val.d |-> check_type_cfg_entry(val.d[k])]))

\* self.<attr>[key] = val for the dict attribute attr
PutItem(stp, attr, key, val) ==
    PutAttr(stp, attr, Dict(stp.d[attr].cls, Put(stp.d[attr].d, key, val)))

\* self[key] = val (__setitem__): the exception raised, and the setup after
setitem(stp, key, val) ==
    LET assign(s) == [exc |-> "", stp |-> PutAttr(s, key, val)] IN
    IF key \in FORBIDDEN_ATTRS
    THEN [exc |-> "AttributeError", stp |-> stp]
    ELSE IF key \in DOMAIN stp.d["colocation_settings"].d
    THEN assign(PutItem(stp, "colocation_settings", key, val))
    ELSE IF key = "obs_config" THEN assign(set_obsconfig(stp, val))
    ELSE IF key = "model_config" THEN assign(set_modelconfig(stp, val))
    ELSE IF key = "colocation_settings"
    THEN assign(PutAttr(stp, "colocation_settings",
                        Dict(stp.d["colocation_settings"].cls,
                             Upd(stp.d["colocation_settings"].d, val.d))))
    ELSE IF IsDict(val)
    THEN IF "obs_id" \in DOMAIN val.d
         THEN assign(PutItem(stp, "obs_config", key, ObsConfigEval(val)))
         ELSE IF "model_id" \in DOMAIN val.d
         THEN assign(PutItem(stp, "model_config", key, ModelConfigEval(val)))
         ELSE assign(PutAttr(stp, key, val))
    ELSE IF key \notin DOMAIN stp.d
    THEN [exc |-> "ValueError", stp |-> stp]
    ELSE assign(stp)

\* self[key] (__getitem__)
getitem(stp, key) ==
    IF key \in DOMAIN stp.d THEN stp.d[key]
    ELSE IF key \in DOMAIN stp.d["colocation_settings"].d
    THEN stp.d["colocation_settings"].d[key]
    ELSE None

\* update(**settings) for the settings of a document, in its order, from
\* the i-th on; the first exception ends it
RECURSIVE update(_, _, _)
update(stp, settings, i) ==
    LET next(r) == IF r.exc # "" THEN r ELSE update(r.stp, settings, i + 1) IN
    IF i > Len(settings.order) THEN [exc |-> "", stp |-> stp]
    ELSE next(setitem(stp, settings.order[i], settings.d[settings.order[i]]))

\* _obs_config_asdict() and _model_config_asdict()
config_asdict(cfgs) ==
    Dict("dict", [k \in DOMAIN cfgs.d |-> Dict("dict", cfgs.d[k].d)])

\* the value to_dict gives for the attribute key
to_dict_value(key, val) ==
    IF IsDict(val)
    THEN IF key \in {"model_config", "obs_config"} THEN config_asdict(val)
         ELSE Dict("dict", [k \in {k \in DOMAIN val.d : val.d[k] # None} |-> val.d[k]])
    ELSE val

\* to_dict()
to_dict(stp) ==
    [d |-> [key \in DOMAIN stp.d \ JSON_CFG_IGNORE |-> to_dict_value(key, stp.d[key])],
     order |-> SelectSeq(stp.order, LAMBDA key : key \notin JSON_CFG_IGNORE)]

\* a value written by save_dict_json and read by read_json: an instance of
\* a subclass of dict comes back as a dict
RECURSIVE JsonValue(_)
JsonValue(val) ==
    IF IsDict(val)
    THEN Dict("dict", [k \in DOMAIN val.d |-> JsonValue(val.d[k])])
    ELSE val

\* read_json of the file save_dict_json wrote for the document
JsonDocument(doc) ==
    [d |-> [key \in DOMAIN doc.d |-> JsonValue(doc.d[key])], order |-> doc.order]

\* init_json_output_dirs(): the directories of OUT_DIR_NAMES under exp_dir
init_json_output_dirs(stp) ==
    PutAttr(stp, "_out_dirs",
            Dict("dict", [map |-> PyStr("exp/map"), ts |-> PyStr("exp/ts"),
                          hm |-> PyStr("exp/hm")]))

\* the setup after reading the property out_dirs
read_out_dirs(stp) ==
    IF DOMAIN stp.d["_out_dirs"].d = {} THEN init_json_output_dirs(stp) ELSE stp

\* compute_json_files_from_colocateddata(coldata): the exception raised, the
\* setup after, and the frequencies handed to the statistics stage
compute_json_files(stp, obs_name) ==
    LET hand(s) == [exc |-> "", stp |-> s,
                    stats |-> [statistics_freqs |-> s.d["statistics_freqs"],
                               main_freq |-> s.d["main_freq"]]]
        with_main(s) ==
            IF s.d["main_freq"] = None
            THEN PutAttr(s, "main_freq",
                         PyStr(get_lowest_resolution(s.d["statistics_freqs"].l)))
            ELSE s IN
    IF obs_name \notin DOMAIN stp.d["obs_config"].d
    THEN [exc |-> "KeyError", stp |-> stp, stats |-> None]
    ELSE hand(read_out_dirs(with_main(stp)))

\* the number of calls made on one setup
MaxCalls == 4

\* entries as a user writes them
RawObs ==
    Dict("dict", [obs_id |-> PyStr("AeronetSun"), obs_vars |-> PyList(<<"od550aer">>),
                  obs_vert_type |-> PyStr("Column")])

RawModel == Dict("dict", [model_id |-> PyStr("CAMS")])

\* the settings given to update(), one key at a time
SettingsPool ==
    { <<"raise_exceptions", PyBool(TRUE)>>,
      <<"regrid_res_deg", None>>,
      <<"colocation_settings", Dict("dict", [reanalyse_existing |-> PyBool(TRUE)])>>,
      <<"obs_config", Dict("dict", [A |-> RawObs])>>,
      <<"model_config", Dict("dict", [M |-> RawModel])>>,
      <<"A", RawObs>>,
      <<"M", RawModel>>,
      <<"statistics_freqs", PyList(<<"yearly", "monthly">>)>>,
      <<"statistics_freqs", PyList(<<"daily", "monthly">>)>>,
      <<"main_freq", PyStr("daily")>>,
      <<"basedir_coldata", PyStr("coldata")>>,
      <<"exp_pi_name", PyStr("me")>> }

NoFile == [t |-> "None"]
NoLoad == [t |-> "None"]

InitConf ==
    /\ conf = [t |-> "setup", stp |-> NewSetup, exc |-> "", explicit |-> FALSE,
               stats |-> None, file |-> NoFile, saved |-> NewSetup,
               loaded |-> NoLoad, n |-> 0]
    /\ coldir = IdleColdir
    /\ sobs = IdleSobs
    /\ setup = IdleSetup
    /\ run = IdleRun
    /\ cfg = IdleCfg
    /\ codec = IdleCodec
    /\ tree = IdleTree
    /\ self = IdleSelf
    /\ stations = {}
    /\ STANDARD_META_KEYS = <<>>
    /\ last = NoCall
    /\ cache = IdleCache
    /\ reader = IdleReader

ConfCall ==
    /\ conf.t = "setup"
    /\ conf.n < MaxCalls

ConfFrame == UNCHANGED <<svars, evars, cvars, kvars, tvars, ovars, fvars, dvars, rvars>>

\* update(key=val), which is self[key] = val
Update ==
    /\ ConfCall
    /\ \E kv \in SettingsPool :
        LET done(r) ==
                conf' = [conf EXCEPT !.stp = r.stp, !.exc = r.exc, !.n = @ + 1,
                            !.explicit = @ \/ (kv[1] = "main_freq" /\ r.exc = "")] IN
        done(setitem(conf.stp, kv[1], kv[2]))
    /\ ConfFrame

\* self.raise_exceptions = val
SetRaiseExceptions ==
    /\ ConfCall
    /\ \E val \in BOOLEAN :
        conf' = [conf EXCEPT
                    !.stp = PutItem(@, "colocation_settings", "raise_exceptions", PyBool(val)),
                    !.exc = "", !.n = @ + 1]
    /\ ConfFrame

\* self.reanalyse_existing = val
SetReanalyseExisting ==
    /\ ConfCall
    /\ \E val \in BOOLEAN :
        conf' = [conf EXCEPT
                    !.stp = PutItem(@, "colocation_settings", "reanalyse_existing", PyBool(val)),
                    !.exc = "", !.n = @ + 1]
    /\ ConfFrame

\* init_json_output_dirs()
InitJsonOutputDirs ==
    /\ ConfCall
    /\ conf' = [conf EXCEPT !.stp = init_json_output_dirs(@), !.exc = "", !.n = @ + 1]
    /\ ConfFrame

\* compute_json_files_from_colocateddata(coldata) for data of the obs "A"
ComputeJsonFiles ==
    /\ ConfCall
    /\ LET done(r) ==
               conf' = [conf EXCEPT !.stp = r.stp, !.exc = r.exc, !.n = @ + 1,
                                    !.stats = IF r.exc = "" THEN r.stats ELSE @] IN
       done(compute_json_files(conf.stp, "A"))
    /\ ConfFrame

\* to_json(output_dir): the document is written to the config file
ToJson ==
    /\ ConfCall
    /\ conf' = [conf EXCEPT !.file = JsonDocument(to_dict(conf.stp)),
                            !.saved = conf.stp, !.loaded = NoLoad,
                            !.exc = "", !.n = @ + 1]
    /\ ConfFrame

\* ExperimentSetup(proj_id, exp_id).load_config(proj_id, exp_id, config_dir)
LoadConfig ==
    /\ ConfCall
    /\ conf' = [conf EXCEPT
                   !.loaded = IF conf.file = NoFile
                              THEN [exc |-> "ValueError", stp |-> NewSetup]
                              ELSE update(NewSetup, conf.file, 1),
                   !.n = @ + 1]
    /\ ConfFrame

\* ExperimentSetup.from_json(config_file): the name AerocomEvaluation it
\* calls is not defined
FromJson ==
    /\ ConfCall
    /\ conf.file # NoFile
    /\ conf' = [conf EXCEPT !.loaded = [exc |-> "NameError", stp |-> NewSetup],
                            !.n = @ + 1]
    /\ ConfFrame

NextConf ==
    \/ Update
    \/ SetRaiseExceptions
    \/ SetReanalyseExisting
    \/ InitJsonOutputDirs
    \/ ComputeJsonFiles
    \/ ToJson
    \/ LoadConfig
    \/ FromJson

SpecConf == InitConf /\ [][NextConf]_vars


\* the colocation options
ColocationOptions == DOMAIN NewSetup.d["colocation_settings"].d

\* the attributes named as ignored: the logger handle, the cached output
\* directories and the custom read methods
IgnoredAttrs == {"_log", "_out_dirs", "add_methods"}

\* C22: a setup loaded from the document that to_json saved has a to_dict
\* equal to the document, with obs_config, model_config and every colocation
\* option as they were in the saved setup, and the attributes of the saved
\* setup missing from the document are exactly the ignored ones
C22_RoundTrip ==
    conf.t = "setup" /\ conf.file # NoFile =>
        /\ DOMAIN conf.saved.d \ DOMAIN conf.file.d = IgnoredAttrs
        /\ conf.loaded # NoLoad =>
            /\ conf.loaded.exc = ""
            /\ to_dict(conf.loaded.stp).d = conf.file.d
            /\ \A key \in {"obs_config", "model_config"} :
                   config_asdict(conf.loaded.stp.d[key]) = config_asdict(conf.saved.d[key])
            /\ \A k \in ColocationOptions :
                   getitem(conf.loaded.stp, k) = getitem(conf.saved, k)

\* C26: when main_freq was not set by the user, the main_freq handed to the
\* statistics stage is the lowest resolution of the statistics_freqs handed
\* with it
C26_MainFreqLowest ==
    (conf.t = "setup" /\ conf.stats # None /\ ~conf.explicit) =>
        conf.stats.main_freq =
            PyStr(get_lowest_resolution(conf.stats.statistics_freqs.l))

\* C27: colocation_settings is a ColocationSetup that holds every colocation
\* option, and self[k] is colocation_settings[k] for every option k
C27_OptionsAgree ==
    conf.t = "setup" =>
        /\ conf.stp.d["colocation_settings"].cls = "ColocationSetup"
        /\ \A k \in ColocationOptions :
            /\ k \in DOMAIN conf.stp.d["colocation_settings"].d
            /\ getitem(conf.stp, k) = conf.stp.d["colocation_settings"].d[k]

\* C28: every value of obs_config is an ObsConfigEval and every value of
\* model_config a ModelConfigEval, and no entry is an attribute of the setup
C28_TypedEntries ==
    conf.t = "setup" =>
        /\ \A k \in DOMAIN conf.stp.d["obs_config"].d :
               conf.stp.d["obs_config"].d[k].cls = "ObsConfigEval"
        /\ \A k \in DOMAIN conf.stp.d["model_config"].d :
               conf.stp.d["model_config"].d[k].cls = "ModelConfigEval"
        /\ DOMAIN conf.stp.d \cap {"A", "M"} = {}

----------------------------------------------------------------------------
(* Config.CACHEDIR: the cache directory of the Config object and the
   directories of the file system it is looked up in; the file system is
   changed by the Config object only *)

\* the directories that are assigned as cache directory
CacheDirPool == {"/tmp/_cache", "/lustre/_cache"}

\* a directory of the file system: whether it exists, whether the user may
\* write to it, and whether it has the subdirectory named like the user
Dir(exists, writable, sub) == [exists |-> exists, writable |-> writable, sub |-> sub]

DirStates ==
    {Dir(e, w, s) : e \in BOOLEAN, w \in BOOLEAN, s \in BOOLEAN} \
        {dir \in [exists : {FALSE}, writable : BOOLEAN, sub : BOOLEAN] : dir.writable \/ dir.sub}

\* os.path.join(base, getpass.getuser())
UserSubdir(base) == [t |-> "path", base |-> base, name |-> "user"]

\* chk_make_subdir(base, name) for the name of the user: the subdirectory is
\* made unless it exists; making it fails without the base directory or
\* without write access to it
chk_make_subdir(fs, base) ==
    IF fs[base].sub THEN [exc |-> "", ret |-> UserSubdir(base), fs |-> fs]
    ELSE IF ~fs[base].exists THEN [exc |-> "FileNotFoundError", ret |-> None, fs |-> fs]
    ELSE IF ~fs[base].writable THEN [exc |-> "PermissionError", ret |-> None, fs |-> fs]
    ELSE [exc |-> "", ret |-> UserSubdir(base),
          fs |-> [fs EXCEPT ![base].sub = TRUE]]

\* the property CACHEDIR read: the exception raised, the value returned, and
\* _caching_active and the file system after
get_CACHEDIR(c) ==
    LET made(r) ==
            IF r.exc = ""
            THEN [exc |-> "", ret |-> r.ret, caching_active |-> c.caching_active,
                  fs |-> r.fs]
            ELSE [exc |-> "", ret |-> None, caching_active |-> FALSE, fs |-> c.fs] IN
    IF c.cachedir = None
    THEN [exc |-> "IOError", ret |-> None, caching_active |-> c.caching_active,
          fs |-> c.fs]
    ELSE made(chk_make_subdir(c.fs, c.cachedir.s))

\* the property CACHEDIR assigned, with every directory taken as fit
set_CACHEDIR_unchecked(c, val) ==
    [exc |-> "", cachedir |-> PyStr(val)]

\* the property CACHEDIR assigned: the exception raised and _cachedir after
set_CACHEDIR(c, val) ==
    IF ~c.fs[val].exists THEN [exc |-> "ValueError", cachedir |-> c.cachedir]
    ELSE IF ~c.fs[val].writable THEN [exc |-> "ValueError", cachedir |-> c.cachedir]
    ELSE [exc |-> "", cachedir |-> PyStr(val)]

NoCacheCall == [op |-> ""]

\* Config(cache_dir=...) stores cache_dir as it is given
InitCache ==
    /\ \E cache_dir \in {None} \cup {PyStr(d) : d \in CacheDirPool},
          fs \in [CacheDirPool -> DirStates] :
        cache = [t |-> "config", cachedir |-> cache_dir, caching_active |-> TRUE,
                 assigned |-> FALSE, fs |-> fs, last |-> NoCacheCall]
    /\ conf = IdleConf
    /\ coldir = IdleColdir
    /\ sobs = IdleSobs
    /\ setup = IdleSetup
    /\ run = IdleRun
    /\ cfg = IdleCfg
    /\ codec = IdleCodec
    /\ tree = IdleTree
    /\ self = IdleSelf
    /\ stations = {}
    /\ STANDARD_META_KEYS = <<>>
    /\ last = NoCall
    /\ reader = IdleReader

CacheFrame == UNCHANGED <<svars, evars, cvars, kvars, tvars, ovars, fvars, uvars, rvars>>

\* const.CACHEDIR read
GetCachedir ==
    /\ cache.t = "config"
    /\ LET done(r) ==
               cache' = [cache EXCEPT
                   !.caching_active = r.caching_active, !.fs = r.fs,
                   !.last = [op |-> "get", exc |-> r.exc, ret |-> r.ret,
                             val |-> cache.cachedir,
                             pre |-> IF cache.cachedir = None THEN None
                                     ELSE cache.fs[cache.cachedir.s],
                             pre_cachedir |-> cache.cachedir]] IN
       done(get_CACHEDIR(cache))
    /\ CacheFrame

\* const.CACHEDIR = val
SetCachedir ==
    /\ cache.t = "config"
    /\ \E val \in CacheDirPool :
        LET done(r) ==
                cache' = [cache EXCEPT
                    !.cachedir = r.cachedir,
                    !.assigned = IF r.exc = "" THEN TRUE ELSE @,
                    !.last = [op |-> "set", exc |-> r.exc, ret |-> None,
                              val |-> PyStr(val), pre |-> cache.fs[val],
                              pre_cachedir |-> cache.cachedir]] IN
        done(set_CACHEDIR(cache, val))
    /\ CacheFrame

NextCache ==
    \/ GetCachedir
    \/ SetCachedir

SpecCache == InitCache /\ [][NextCache]_vars

\* the assignment of a directory that does not exist or cannot be written to
\* raises ValueError and leaves _cachedir as it was, any other assignment
\* sets it; a read without a cache directory raises IOError
CachedirErrors ==
    /\ cache.last.op = "set" =>
           IF cache.last.pre.exists /\ cache.last.pre.writable
           THEN cache.last.exc = "" /\ cache.cachedir = cache.last.val
           ELSE cache.last.exc = "ValueError" /\ cache.cachedir = cache.last.pre_cachedir
    /\ (cache.last.op = "get" /\ cache.last.val = None) => cache.last.exc = "IOError"

\* C23: every read after the assignment of a directory returns its
\* subdirectory of the user, which exists after the read; the assignment of
\* a directory that does not exist or cannot be written to raises ValueError
\* and changes nothing; a read without a cache directory raises IOError
C23_EveryReadReturnsSubdir ==
    cache.t = "config" =>
        /\ CachedirErrors
        /\ (cache.last.op = "get" /\ cache.assigned) =>
               /\ cache.last.exc = ""
               /\ cache.last.ret = UserSubdir(cache.cachedir.s)
               /\ cache.fs[cache.cachedir.s].sub

\* a read after an assignment has made the subdirectory of the user
C23_Witness ==
    /\ cache.t = "config"
    /\ cache.last.op = "get"
    /\ cache.assigned
    /\ ~cache.last.pre.sub
    /\ cache.last.ret = UserSubdir(cache.cachedir.s)
    /\ cache.fs[cache.cachedir.s].sub

----------------------------------------------------------------------------
(* ReadCAMS2_83: the inputs of the reader (data_dir, data_id, model, date
   range, forecast day), its cached file list and dataset, and the files of
   the model data folder *)

\* the days files can exist for, 1..MaxDate
MaxDate == 2

\* the highest forecast day assigned
MaxForecastDay == 1

ModelNames == {"emep", "ensemble"}

\* the path of the file of a model for a date (ModelData(...).path)
ModelPath(name, date) == [model |-> name, date |-> date]

\* the data ids assigned, with the groups of the match of
\* ^CAMS2-83\.(.*)\.day(\d)$ and the casefolded model name, << >> without match
DataIdPool ==
    { [s |-> "CAMS2-83.EMEP.day0", groups |-> <<"emep", 0>>],
      [s |-> "CAMS2-83.EMEP.day1", groups |-> <<"emep", 1>>],
      [s |-> "CAMS2-83.ENSEMBLE.day0", groups |-> <<"ensemble", 0>>],
      [s |-> "EMEP", groups |-> <<>>] }

\* model_paths(model, *dates): the paths of the dates that are files
RECURSIVE model_paths(_, _, _)
model_paths(files, model, dates) ==
    IF dates = <<>> THEN <<>>
    ELSE (IF ModelPath(model, dates[1]) \in files
          THEN <<ModelPath(model, dates[1])>> ELSE <<>>)
         \o model_paths(files, model, Tail(dates))

\* parse_daterange(dates) for a pair of dates: every day from the first to
\* the second
parse_daterange(dates) ==
    [i \in 1..(IF dates[2] >= dates[1] THEN dates[2] - dates[1] + 1 ELSE 0) |->
        dates[1] + i - 1]

\* read_dataset(paths, day=day): the dataset of the files for the forecast day
read_dataset(paths, day) == [paths |-> paths, day |-> day]

\* the property filepaths read: the exception raised, the value returned and
\* the reader after
get_filepaths(r) ==
    LET found(paths) ==
            IF paths = <<>> THEN [exc |-> "ValueError", ret |-> None, r |-> r]
            ELSE [exc |-> "", ret |-> PyList(paths),
                  r |-> [r EXCEPT !.filepaths = PyList(paths)]] IN
    IF r.data_dir = None THEN [exc |-> "AttributeError", ret |-> None, r |-> r]
    ELSE IF r.filepaths # None THEN [exc |-> "", ret |-> r.filepaths, r |-> r]
    ELSE IF r.model = None \/ r.daterange = None
    THEN [exc |-> "ValueError", ret |-> None, r |-> r]
    ELSE found(model_paths(r.files, r.model.s, r.daterange.l))

\* the property filedata read
get_filedata(r) ==
    LET read(fp) ==
            IF fp.exc # "" THEN fp
            ELSE IF fp.r.forecast_day = None
            THEN [exc |-> "ValueError", ret |-> None, r |-> fp.r]
            ELSE [exc |-> "", ret |-> read_dataset(fp.ret.l, fp.r.forecast_day.n),
                  r |-> [fp.r EXCEPT !.filedata =
                            read_dataset(fp.ret.l, fp.r.forecast_day.n)]] IN
    IF r.filedata # None THEN [exc |-> "", ret |-> r.filedata, r |-> r]
    ELSE read(get_filepaths(r))

\* the property data_id assigned
set_data_id(r, val) ==
    IF val.groups = <<>>
    THEN [exc |-> "ValueError", r |-> [r EXCEPT !.data_id = PyStr(val.s)]]
    ELSE [exc |-> "",
          r |-> [r EXCEPT !.data_id = PyStr(val.s),
                          !.model = PyStr(val.groups[1]), !.filedata = None,
                          !.forecast_day = PyNum(val.groups[2])]]

NoReaderCall == [op |-> "", exc |-> "", ret |-> None]

\* ReadCAMS2_83(data_id, data_dir) for a data id that matches
InitReader ==
    /\ \E val \in {v \in DataIdPool : v.groups # <<>>},
          data_dir \in {None, PyStr("model")},
          files \in SUBSET {ModelPath(name, date) : name \in ModelNames, date \in 1..MaxDate} :
        reader = [set_data_id([t |-> "reader", files |-> files, data_dir |-> data_dir,
                               data_id |-> None, model |-> None,
                               forecast_day |-> None, daterange |-> None,
                               filepaths |-> None, filedata |-> None,
                               last |-> NoReaderCall], val).r
                  EXCEPT !.last = NoReaderCall]
    /\ cache = IdleCache
    /\ conf = IdleConf
    /\ coldir = IdleColdir
    /\ sobs = IdleSobs
    /\ setup = IdleSetup
    /\ run = IdleRun
    /\ cfg = IdleCfg
    /\ codec = IdleCodec
    /\ tree = IdleTree
    /\ self = IdleSelf
    /\ stations = {}
    /\ STANDARD_META_KEYS = <<>>
    /\ last = NoCall

ReaderFrame == UNCHANGED <<svars, evars, cvars, kvars, tvars, ovars, fvars, uvars, dvars>>

\* reader.data_id = val
SetDataId ==
    /\ reader.t = "reader"
    /\ \E val \in DataIdPool :
        LET done(s) == reader' = [s.r EXCEPT !.last = [op |-> "data_id", exc |-> s.exc,
                                                      ret |-> None]] IN
        done(set_data_id(reader, val))
    /\ ReaderFrame

\* reader.model = val
SetModel ==
    /\ reader.t = "reader"
    /\ \E val \in ModelNames :
        reader' = [reader EXCEPT !.model = PyStr(val), !.filedata = None,
                                 !.last = [op |-> "model", exc |-> "", ret |-> None]]
    /\ ReaderFrame

\* reader.daterange = dates, a pair of dates
SetDaterange ==
    /\ reader.t = "reader"
    /\ \E dates \in (1..MaxDate) \X (1..MaxDate) :
        reader' = [reader EXCEPT !.daterange = PyList(parse_daterange(dates)),
                                 !.filedata = None,
                                 !.last = [op |-> "daterange", exc |-> "", ret |-> None]]
    /\ ReaderFrame

\* reader.forecast_day = val
SetForecastDay ==
    /\ reader.t = "reader"
    /\ \E val \in (0..MaxForecastDay) \cup {4} :
        reader' = IF ~(0 <= val /\ val <= 3)
                  THEN [reader EXCEPT !.last = [op |-> "forecast_day",
                                                exc |-> "TypeError", ret |-> None]]
                  ELSE [reader EXCEPT !.forecast_day = PyNum(val),
                                      !.last = [op |-> "forecast_day", exc |-> "",
                                                ret |-> None]]
    /\ ReaderFrame

\* reader.data_dir = val
SetDataDir ==
    /\ reader.t = "reader"
    /\ \E val \in {None, PyStr("model"), PyStr("nowhere")} :
        reader' = IF val = None
                  THEN [reader EXCEPT !.last = [op |-> "data_dir", exc |-> "ValueError",
                                                ret |-> None]]
                  ELSE IF val = PyStr("nowhere")
                  THEN [reader EXCEPT !.last = [op |-> "data_dir",
                                                exc |-> "FileNotFoundError", ret |-> None]]
                  ELSE [reader EXCEPT !.data_dir = val, !.filedata = None,
                                      !.last = [op |-> "data_dir", exc |-> "", ret |-> None]]
    /\ ReaderFrame

\* reader.filepaths read
GetFilepaths ==
    /\ reader.t = "reader"
    /\ LET done(s) == reader' = [s.r EXCEPT !.last = [op |-> "filepaths", exc |-> s.exc,
                                                     ret |-> s.ret]] IN
       done(get_filepaths(reader))
    /\ ReaderFrame

\* reader.filedata read
GetFiledata ==
    /\ reader.t = "reader"
    /\ LET done(s) == reader' = [s.r EXCEPT !.last = [op |-> "filedata", exc |-> s.exc,
                                                     ret |-> s.ret]] IN
       done(get_filedata(reader))
    /\ ReaderFrame

NextReader ==
    \/ SetDataId
    \/ SetModel
    \/ SetDaterange
    \/ SetForecastDay
    \/ SetDataDir
    \/ GetFilepaths
    \/ GetFiledata

SpecReader == InitReader /\ [][NextReader]_vars

\* the files of the model and the date range the reader has now
CurrentPaths == model_paths(reader.files, reader.model.s, reader.daterange.l)

\* C30: the file list that filepaths returns is that of the current model
\* and date range, and the dataset that filedata returns is read from that
\* list for the current forecast day
C30_CacheCoherent ==
    (reader.t = "reader" /\ reader.last.exc = "") =>
        /\ reader.last.op = "filepaths" => reader.last.ret = PyList(CurrentPaths)
        /\ reader.last.op = "filedata" =>
               reader.last.ret = read_dataset(CurrentPaths, reader.forecast_day.n)

====
